---- MODULE Spec2Model ----
(***************************************************************************)
(* Backtesting core of CryptoV4: Backtester.run (the candle-by-candle      *)
(* simulation), BacktestResult (metrics), Backtester.optimize (grid        *)
(* search), Backtester.walk_forward_test (rolling optimize-then-test) and  *)
(* the strategies of strategy_base.py.                                     *)
(*                                                                         *)
(* Money, sizes and indicator values are exact rationals <<n, d>> (d > 0,  *)
(* lowest terms); the floating-point rounding of the Python code is not    *)
(* modelled.  NaN is a value of its own, and every comparison with it is   *)
(* false, as in IEEE arithmetic.  A DataFrame is a function from column    *)
(* names to equally long sequences; the index is the column "timestamp".   *)
(* Python's None is the record None.                                        *)
(***************************************************************************)
EXTENDS Integers, Sequences, FiniteSets, TLC

(* ------------------------------ bounds --------------------------------- *)
\* longest price series the feed returns to a direct call of run
MaxCandles == 4
\* longest price series the feed returns during a grid search
MaxOptCandles == 2
\* longest price series the feed returns to a run that is called twice
MaxTwiceCandles == 3
\* longest price series the feed returns during a walk-forward test
MaxWfCandles == 3
\* longest rising price series the feed returns
MaxRisingCandles == 10
\* longest span, training span and step (in days) of the walk-forward calls
\* whose windows are generated
MaxSpan == 6
MaxWindow == 3
MaxStep == 3
\* the days from datetime.min to the first day of a span, and the most turns
\* of the window loop that are followed
MaxDaysBack == 3
MaxWindows == 8
\* the longest trade list and the longest series handed to trading_utils
MaxTrades == 3
MaxPoints == 3

(* --------------------------- exact arithmetic -------------------------- *)
Abs(x) == IF x < 0 THEN -x ELSE x

RECURSIVE Gcd(_, _)
Gcd(a, b) == IF b = 0 THEN a ELSE Gcd(b, a % b)

Rat(n, d) == LET g == Gcd(Abs(n), d) IN <<n \div g, d \div g>>

R(n) == <<n, 1>>

Zero == <<0, 1>>

\* the non-finite floats have denominator 0
NaN == <<0, 0>>

NegInf == <<-1, 0>>

PosInf == <<1, 0>>

IsNaN(a) == a = NaN

\* -1 for -inf, 1 for +inf, 0 for a finite value
InfRank(a) == IF a[2] = 0 THEN a[1] ELSE 0

RNeg(a) == <<-a[1], a[2]>>

RAdd(a, b) ==
    LET g == Gcd(a[2], b[2])
        l == (a[2] \div g) * b[2]
    IN  Rat(a[1] * (l \div a[2]) + b[1] * (l \div b[2]), l)

RSub(a, b) == RAdd(a, RNeg(b))

RMul(a, b) ==
    LET g1 == Gcd(Abs(a[1]), b[2])
        g2 == Gcd(Abs(b[1]), a[2])
    IN  Rat((a[1] \div g1) * (b[1] \div g2), (a[2] \div g2) * (b[2] \div g1))

\* b is never zero where the model divides
RDiv(a, b) ==
    IF b[1] > 0 THEN RMul(a, <<b[2], b[1]>>) ELSE RMul(a, <<-b[2], -b[1]>>)

\* a / b as numpy divides floats: x / 0 is an infinity of the sign of x, 0 / 0
\* and inf / inf are NaN
FDiv(a, b) ==
    IF IsNaN(a) \/ IsNaN(b) THEN NaN
    ELSE IF a[2] = 0
         THEN IF b[2] = 0 THEN NaN ELSE IF b[1] >= 0 THEN a ELSE RNeg(a)
    ELSE IF b[2] = 0 THEN Zero
    ELSE IF b[1] = 0
         THEN IF a[1] = 0 THEN NaN ELSE IF a[1] > 0 THEN PosInf ELSE NegInf
    ELSE RDiv(a, b)

RSign(a) == IF a[1] > 0 THEN 1 ELSE IF a[1] < 0 THEN -1 ELSE 0

\* float comparisons: false as soon as an operand is NaN
RGt(a, b) ==
    /\ ~IsNaN(a)
    /\ ~IsNaN(b)
    /\ IF a[2] = 0 \/ b[2] = 0 THEN InfRank(a) > InfRank(b)
       ELSE RSign(RSub(a, b)) > 0

RLt(a, b) == RGt(b, a)

RGe(a, b) ==
    /\ ~IsNaN(a)
    /\ ~IsNaN(b)
    /\ IF a[2] = 0 \/ b[2] = 0 THEN InfRank(a) >= InfRank(b)
       ELSE RSign(RSub(a, b)) >= 0

RLe(a, b) == RGe(b, a)

(* ------------------------------ Python bits ---------------------------- *)
None == [is_none |-> TRUE]

\* dict.update / setattr: the entries of e override those of d
Update(d, e) ==
    [k \in DOMAIN d \cup DOMAIN e |-> IF k \in DOMAIN e THEN e[k] ELSE d[k]]

RECURSIVE SumSeq(_)
SumSeq(s) == IF s = <<>> THEN 0 ELSE Head(s) + SumSeq(Tail(s))

(* ------------------------------ DataFrames ----------------------------- *)
\* a frame of closes indexed by the timestamps 1, 2, ... in increasing order
Frame(closes) ==
    [timestamp |-> [k \in 1..Len(closes) |-> k], close |-> closes]

NRows(df) == Len(df.timestamp)

Empty(df) == NRows(df) = 0

IlocAll(df, n) == df

\* data.iloc[:n].copy()
Iloc(df, n) == [c \in DOMAIN df |-> SubSeq(df[c], 1, n)]

\* a date argument is <<>> (None) or <<d>>
InRange(t, start_date, end_date) ==
    /\ start_date = <<>> \/ t >= start_date[1]
    /\ end_date = <<>> \/ t <= end_date[1]

\* data[data.index >= start_date], then data[data.index <= end_date]
FilterDates(df, start_date, end_date) ==
    LET RECURSIVE Pick(_, _)
        Pick(s, k) ==
            IF k > NRows(df) THEN <<>>
            ELSE IF InRange(df.timestamp[k], start_date, end_date)
                 THEN <<s[k]>> \o Pick(s, k + 1)
                 ELSE Pick(s, k + 1)
    IN  [c \in DOMAIN df |-> Pick(df[c], 1)]

\* df['close'].rolling(window=w).mean(): NaN until w values are there
RollingMean(values, w) ==
    [k \in 1..Len(values) |->
        IF k < w THEN NaN ELSE Rat(SumSeq(SubSeq(values, k - w + 1, k)), w)]

(* ------------------------------ strategies ----------------------------- *)
\* a Strategy subclass that keeps the base prepare_data and whose
\* generate_signal is any function of the data it is given
ScriptedStrategy(m) ==
    [kind |-> "scripted", name |-> "Scripted", min_required_candles |-> m,
     parameters |-> <<>>]

\* a Strategy subclass that keeps the base prepare_data and whose
\* generate_signal is a fixed function of the data it is given: outcomes[n] on
\* a frame of n candles, hold on a longer one
FixedStrategy(m, outcomes) ==
    [kind |-> "fixed", name |-> "Fixed", min_required_candles |-> m,
     parameters |-> <<>>, outcomes |-> outcomes]

MovingAverageStrategy(short_window, long_window) ==
    [kind |-> "ma", name |-> "Moving Average Crossover",
     short_window |-> short_window, long_window |-> long_window,
     min_required_candles |-> long_window,
     parameters |-> [short_window |-> short_window,
                     long_window |-> long_window]]

RSIStrategy(rsi_period, oversold, overbought) ==
    [kind |-> "rsi", name |-> "RSI", rsi_period |-> rsi_period,
     oversold |-> oversold, overbought |-> overbought,
     min_required_candles |-> rsi_period + 1,
     parameters |-> [rsi_period |-> rsi_period, oversold |-> oversold,
                     overbought |-> overbought]]

\* the 'rsi' column: 100 - 100 / (1 + gain / loss) over rolling means of
\* the gains and the losses; 0 / 0 is NaN and gain / 0 is +inf (rsi = 100)
RsiColumn(closes, period) ==
    LET delta(k) == IF k = 1 THEN 0 ELSE closes[k] - closes[k - 1]
        gain == [k \in 1..Len(closes) |-> IF delta(k) > 0 THEN delta(k) ELSE 0]
        loss == [k \in 1..Len(closes) |-> IF delta(k) < 0 THEN -delta(k) ELSE 0]
        g(k) == SumSeq(SubSeq(gain, k - period + 1, k))
        l(k) == SumSeq(SubSeq(loss, k - period + 1, k))
    IN  [k \in 1..Len(closes) |->
            IF k < period \/ g(k) + l(k) = 0 THEN NaN
            ELSE Rat(100 * g(k), g(k) + l(k))]

\* Strategy.prepare_data and its overrides: the frame they RETURN; the
\* overrides work on df = data.copy() and leave their argument alone
PrepareData(s, data) ==
    CASE s.kind = "ma" ->
            Update(data, [short_ma |-> RollingMean(data.close, s.short_window),
                          long_ma |-> RollingMean(data.close, s.long_window)])
      [] s.kind = "rsi" ->
            Update(data, [rsi |-> RsiColumn(data.close, s.rsi_period)])
      [] OTHER -> data

Returns(v) == [raises |-> FALSE, signal |-> v]

Raises == [raises |-> TRUE, signal |-> 0]

MASignal(s, data) ==
    LET n == NRows(data) IN
    IF n < s.min_required_candles THEN Returns(0)
    ELSE IF ~({"short_ma", "long_ma"} \subseteq DOMAIN data) THEN Raises
    ELSE IF IsNaN(data.short_ma[n]) \/ IsNaN(data.long_ma[n]) THEN Returns(0)
    ELSE IF n > 1 /\ RLe(data.short_ma[n - 1], data.long_ma[n - 1])
                  /\ RGt(data.short_ma[n], data.long_ma[n]) THEN Returns(1)
    ELSE IF n > 1 /\ RGe(data.short_ma[n - 1], data.long_ma[n - 1])
                  /\ RLt(data.short_ma[n], data.long_ma[n]) THEN Returns(-1)
    ELSE Returns(0)

RSISignal(s, data) ==
    LET n == NRows(data) IN
    IF n < s.min_required_candles THEN Returns(0)
    ELSE IF "rsi" \notin DOMAIN data THEN Raises
    ELSE IF IsNaN(data.rsi[n]) THEN Returns(0)
    ELSE IF n > 1 /\ RLe(data.rsi[n - 1], R(s.oversold))
                  /\ RGt(data.rsi[n], R(s.oversold)) THEN Returns(1)
    ELSE IF n > 1 /\ RGe(data.rsi[n - 1], R(s.overbought))
                  /\ RLt(data.rsi[n], R(s.overbought)) THEN Returns(-1)
    ELSE Returns(0)

\* what generate_signal(data) can do: return 1, -1 or 0, or raise
GenerateSignal(s, data) ==
    CASE s.kind = "ma" -> {MASignal(s, data)}
      [] s.kind = "rsi" -> {RSISignal(s, data)}
      [] s.kind = "fixed" ->
            {IF NRows(data) \in DOMAIN s.outcomes
             THEN s.outcomes[NRows(data)] ELSE Returns(0)}
      [] OTHER -> {Returns(1), Returns(-1), Returns(0), Raises}

(* -------------------------------- state -------------------------------- *)
VARIABLES
    exchange,       \* self.exchange: None, or the price feed [ohlcv, fails]
    strategy,       \* self.strategy: the attributes of the Strategy instance
    args,           \* the arguments of the call of run that is under way
    rpc,            \* where run is: "idle", "call", "loop", "returned"
    data,           \* run's local data: the fetched and date-filtered frame
    i,              \* run's loop index (0-based, as enumerate gives it)
    state,          \* run's local state dict
    equity_curve,   \* run's local equity_curve['equity']
    analysis_data,  \* the frame last passed to generate_signal (None: none)
    result,         \* what run returned (None, or a BacktestResult)
    hist,           \* history of the run, read by the properties only
    opt,            \* the locals of optimize (None: optimize is not called)
    wf,             \* the locals of walk_forward_test (None when not called)
    prev,           \* what the caller's earlier call of run returned
    util,           \* a call of a function of trading_utils.py (None: none)
    conc            \* two tasks that call optimize concurrently (None: none)

vars == <<exchange, strategy, args, rpc, data, i, state, equity_curve,
          analysis_data, result, hist, opt, wf, prev, util, conc>>

(* --------------------------- BacktestResult ---------------------------- *)
RECURSIVE SumProfit(_)
SumProfit(ts) ==
    IF ts = <<>> THEN Zero ELSE RAdd(Head(ts).profit, SumProfit(Tail(ts)))

NumProfitable(ts) == Cardinality({k \in 1..Len(ts) : RGt(ts[k].profit, Zero)})

\* BacktestResult._calculate_metrics, the metrics that are plain arithmetic
CalculateMetrics(initial_capital, trades, curve) ==
    IF Len(trades) = 0
    THEN [total_return |-> Zero, total_return_pct |-> Zero, num_trades |-> Zero,
          win_rate |-> Zero, avg_profit_per_trade |-> Zero]
    ELSE LET final_equity == curve[Len(curve)]
             total_return == RSub(final_equity, initial_capital)
         IN  [total_return |-> total_return,
              total_return_pct |->
                  RMul(RDiv(total_return, initial_capital), R(100)),
              num_trades |-> R(Len(trades)),
              win_rate |-> RMul(Rat(NumProfitable(trades), Len(trades)), R(100)),
              avg_profit_per_trade |->
                  RDiv(SumProfit(trades), R(Len(trades)))]

BacktestResult(strategy_name, symbol, timeframe, initial_capital, trades, curve) ==
    [strategy_name |-> strategy_name, symbol |-> symbol,
     timeframe |-> timeframe, initial_capital |-> initial_capital,
     trades |-> trades, equity_curve |-> curve,
     metrics |-> CalculateMetrics(initial_capital, trades, curve)]

(* ---------------------------- Backtester.run --------------------------- *)
\* entries: entries executed; raised: an exception was caught; calls, at,
\* signal: the calls of generate_signal, the index of the last one and what
\* it returned; op, cash_before, commission: the last branch taken
NoHist == [entries |-> 0, raised |-> FALSE, calls |-> 0, at |-> 0,
           signal |-> 0, op |-> "none", cash_before |-> Zero,
           commission |-> Zero]

\* the locals of run before it binds them
RunReset ==
    /\ data = None /\ i = 0 /\ state = None /\ equity_curve = <<>>
    /\ analysis_data = None /\ result = None /\ hist = NoHist

\* lines 370-372
RunNoExchange ==
    /\ rpc = "call"
    /\ exchange = None
    /\ result' = None
    /\ rpc' = "returned"
    /\ UNCHANGED <<exchange, strategy, args, data, i, state, equity_curve,
                   analysis_data, hist, opt, wf, prev, util, conc>>

RunExceptPartial(trades, curve) ==
    BacktestResult(strategy.name, args.symbol, args.timeframe,
                   args.initial_capital, trades, curve)

\* lines 532-536: what the except clause of run returns
RunExcept(trades, curve) == None

\* line 389 raises inside the try: the feed cannot deliver
RunFetchRaises ==
    /\ rpc = "call"
    /\ exchange # None
    /\ exchange.fails
    /\ result' = RunExcept(<<>>, <<>>)
    /\ hist' = [hist EXCEPT !.raised = TRUE]
    /\ rpc' = "returned"
    /\ UNCHANGED <<exchange, strategy, args, data, i, state, equity_curve,
                   analysis_data, opt, wf, prev, util, conc>>

\* lines 388-396
FetchData == FilterDates(Frame(exchange.ohlcv), args.start_date, args.end_date)

NoDataNever(df) == FALSE

\* line 398: data.empty
NoData(df) == Empty(df)

\* lines 398-400
RunNoData ==
    /\ rpc = "call"
    /\ exchange # None
    /\ ~exchange.fails
    /\ NoData(FetchData)
    /\ data' = FetchData
    /\ result' = None
    /\ rpc' = "returned"
    /\ UNCHANGED <<exchange, strategy, args, i, state, equity_curve,
                   analysis_data, hist, opt, wf, prev, util, conc>>

\* line 418: self.strategy.prepare_data(data) is called for its effect on
\* data; what it returns is not bound to anything
PreparedData(s, df) == LET returned == PrepareData(s, df) IN df

InitialStateKept(capital) ==
    IF state # None THEN state
    ELSE [equity |-> capital, position |-> Zero, entry_price |-> Zero,
          trades |-> <<>>, current_trade |-> None]

\* lines 405-411: the state dict is a local of run, built anew by each call
InitialState(capital) ==
    [equity |-> capital, position |-> Zero, entry_price |-> Zero,
     trades |-> <<>>, current_trade |-> None]

\* lines 404-418
RunPrepare ==
    /\ rpc = "call"
    /\ exchange # None
    /\ ~exchange.fails
    /\ ~NoData(FetchData)
    /\ data' = PreparedData(strategy, FetchData)
    /\ state' = InitialState(args.initial_capital)
    /\ equity_curve' = [k \in 1..NRows(FetchData) |-> args.initial_capital]
    /\ i' = 0
    /\ rpc' = "loop"
    /\ UNCHANGED <<exchange, strategy, args, analysis_data, result, hist,
                   opt, wf, prev, util, conc>>

InLoop == rpc = "loop" /\ i < NRows(data)

\* line 435: candle['close'] of the candle the loop is at
Close == R(data.close[i + 1])

Timestamp == data.timestamp[i + 1]

SkippedNever(k, s) == FALSE

SkippedInclusive(k, s) == k <= s.min_required_candles

\* line 423: the candle at index k is one of the warm-up candles
Skipped(k, s) == k < s.min_required_candles

\* lines 423-424
RunSkip ==
    /\ InLoop
    /\ Skipped(i, strategy)
    /\ i' = i + 1
    /\ UNCHANGED <<exchange, strategy, args, rpc, data, state, equity_curve,
                   analysis_data, result, hist, opt, wf, prev, util, conc>>

\* line 427
AnalysisData == Iloc(data, i + 1)

\* the calls of generate_signal whose outcome is o
Signalled(o) ==
    /\ InLoop
    /\ ~Skipped(i, strategy)
    /\ o \in GenerateSignal(strategy, AnalysisData)
    /\ analysis_data' = AnalysisData

\* lines 430, 532-536: generate_signal raises
RunSignalRaises ==
    /\ Signalled(Raises)
    /\ result' = RunExcept(state.trades, equity_curve)
    /\ hist' = [hist EXCEPT !.raised = TRUE, !.calls = @ + 1, !.at = i,
                            !.op = "raise"]
    /\ rpc' = "returned"
    /\ UNCHANGED <<exchange, strategy, args, data, i, state, equity_curve,
                   opt, wf, prev, util, conc>>

MarkToMarketPositionOnly(st) == RMul(st.position, Close)

\* lines 484-490, for the state st the candle's signal left
MarkToMarket(st) ==
    IF RGt(st.position, Zero)
    THEN RAdd(st.equity, RMul(st.position, Close))
    ELSE st.equity

WritePointAll(curve, k, value) == [j \in DOMAIN curve |-> value]

\* lines 488 and 490: equity_curve.at[timestamp, 'equity'] = value, for the
\* timestamp of the candle at index k
WritePoint(curve, k, value) == [curve EXCEPT ![k + 1] = value]

Rate == RDiv(args.commission_pct, R(100))

CanBuyAlways(st) == TRUE

\* line 433
CanBuy(st) == RLe(st.position, Zero)

\* lines 435-453
BuyStep(st) ==
    LET price == Close
        size == RDiv(st.equity, price)
        cost == RMul(size, price)
        commission == RMul(cost, Rate)
    IN  [st EXCEPT !.position = size,
                   !.entry_price = price,
                   !.equity = RSub(st.equity, commission),
                   !.current_trade =
                       [symbol |-> args.symbol, side |-> "buy",
                        entry_time |-> Timestamp, entry_price |-> price,
                        size |-> size, commission |-> commission]]

\* lines 433-455, 484-490
RunBuy ==
    /\ Signalled(Returns(1))
    /\ CanBuy(state)
    /\ state' = BuyStep(state)
    /\ equity_curve' = WritePoint(equity_curve, i, MarkToMarket(state'))
    /\ hist' = [hist EXCEPT !.entries = @ + 1, !.calls = @ + 1, !.at = i,
                            !.signal = 1, !.op = "buy",
                            !.cash_before = state.equity,
                            !.commission = state'.current_trade.commission]
    /\ i' = i + 1
    /\ UNCHANGED <<exchange, strategy, args, rpc, data, result, opt, wf,
                   prev, util, conc>>

ExitFieldsFirstCandle(st, price, time) ==
    LET size == st.position
        value == RMul(size, price)
        commission == RMul(value, Rate)
        profit == RSub(RSub(value, RMul(size, st.entry_price)), commission)
    IN  [exit_time |-> data.timestamp[1], exit_price |-> price,
         profit |-> profit,
         profit_pct |-> RDiv(profit, RMul(size, st.entry_price))]

\* lines 459-465 and 495-501: the exit fields of a trade closed at price
ExitFields(st, price, time) ==
    LET size == st.position
        value == RMul(size, price)
        commission == RMul(value, Rate)
        profit == RSub(RSub(value, RMul(size, st.entry_price)), commission)
    IN  [exit_time |-> time, exit_price |-> price, profit |-> profit,
         profit_pct |-> RDiv(profit, RMul(size, st.entry_price))]

\* lines 468 and 504
EquityAfterExit(st, price) ==
    LET value == RMul(st.position, price)
    IN  RSub(RAdd(st.equity, value), RMul(value, Rate))

\* lines 459-480
SellStep(st) ==
    LET closed == st.current_trade # None IN
    [st EXCEPT !.equity = EquityAfterExit(st, Close),
               !.position = Zero,
               !.trades = IF closed
                          THEN Append(@, Update(st.current_trade,
                                                ExitFields(st, Close, Timestamp)))
                          ELSE @,
               !.current_trade = None]

\* lines 457-482, 484-490
RunSell ==
    /\ Signalled(Returns(-1))
    /\ RGt(state.position, Zero)
    /\ state' = SellStep(state)
    /\ equity_curve' = WritePoint(equity_curve, i, MarkToMarket(state'))
    /\ hist' = [hist EXCEPT !.calls = @ + 1, !.at = i, !.signal = -1,
                            !.op = "sell"]
    /\ i' = i + 1
    /\ UNCHANGED <<exchange, strategy, args, rpc, data, result, opt, wf,
                   prev, util, conc>>

\* lines 433, 457 both false: no branch is taken; lines 484-490
RunHold ==
    /\ \E o \in {Returns(1), Returns(-1), Returns(0)} :
          /\ Signalled(o)
          /\ ~(o.signal = 1 /\ CanBuy(state))
          /\ ~(o.signal = -1 /\ RGt(state.position, Zero))
          /\ hist' = [hist EXCEPT !.calls = @ + 1, !.at = i,
                                  !.signal = o.signal, !.op = "hold"]
    /\ equity_curve' = WritePoint(equity_curve, i, MarkToMarket(state))
    /\ i' = i + 1
    /\ UNCHANGED <<exchange, strategy, args, rpc, data, state, result, opt,
                   wf, prev, util, conc>>

LastClose == R(data.close[NRows(data)])

ForceCloseNever(st) == st

\* lines 493-516: position and current_trade are left as they are
ForceClose(st) ==
    IF RGt(st.position, Zero)
    THEN [st EXCEPT !.equity = EquityAfterExit(st, LastClose),
                    !.trades =
                        IF st.current_trade # None
                        THEN Append(@, Update(st.current_trade,
                                 ExitFields(st, LastClose,
                                            data.timestamp[NRows(data)])))
                        ELSE @]
    ELSE st

\* lines 492-530
RunFinish ==
    /\ rpc = "loop"
    /\ i = NRows(data)
    /\ state' = ForceClose(state)
    /\ result' = BacktestResult(strategy.name, args.symbol, args.timeframe,
                                args.initial_capital, state'.trades, equity_curve)
    /\ rpc' = "returned"
    /\ UNCHANGED <<exchange, strategy, args, data, i, equity_curve,
                   analysis_data, hist, opt, wf, prev, util, conc>>

(* -------------------------- Backtester.optimize ------------------------ *)
\* a param_grid is a dict in declaration order: a sequence of [name, values]

RECURSIVE ProductFirstFastest(_)
ProductFirstFastest(lists) ==
    IF lists = <<>> THEN << <<>> >>
    ELSE LET h == Head(lists)
             rest == ProductFirstFastest(Tail(lists))
             n == Len(h)
         IN  [j \in 1..(n * Len(rest)) |->
                 <<h[((j - 1) % n) + 1]>> \o rest[((j - 1) \div n) + 1]]

\* itertools.product(*param_values): the last list varies fastest
RECURSIVE Product(_)
Product(lists) ==
    IF lists = <<>> THEN << <<>> >>
    ELSE LET h == Head(lists)
             rest == Product(Tail(lists))
             n == Len(rest)
         IN  [j \in 1..(Len(h) * n) |->
                 <<h[((j - 1) \div n) + 1]>> \o rest[((j - 1) % n) + 1]]

ParamNames(grid) == [j \in 1..Len(grid) |-> grid[j].name]

ParamValues(grid) == [j \in 1..Len(grid) |-> grid[j].values]

\* line 580: {name: value for name, value in zip(param_names, params)}
ParamDict(names, params) ==
    [nm \in {names[j] : j \in 1..Len(names)} |->
        params[CHOOSE j \in 1..Len(names) : names[j] = nm]]

\* line 597: result.metrics.get(metric, 0)
MetricValue(metrics, metric) ==
    IF metric \in DOMAIN metrics THEN metrics[metric] ELSE Zero

\* the blank locals of a run that has not started or was returned from
RunResetNext ==
    /\ data' = None /\ i' = 0 /\ state' = None /\ equity_curve' = <<>>
    /\ analysis_data' = None /\ result' = None /\ hist' = NoHist

\* lines 558-560
OptNoExchange ==
    /\ opt # None
    /\ opt.pc = "start"
    /\ exchange = None
    /\ opt' = [opt EXCEPT !.pc = "done",
                          !.ret = [error |-> "Exchange not initialized"]]
    /\ UNCHANGED <<exchange, strategy, args, rpc, data, i, state,
                   equity_curve, analysis_data, result, hist, wf, prev, util,
                   conc>>

\* lines 564-576
OptStart ==
    /\ opt # None
    /\ opt.pc = "start"
    /\ exchange # None
    /\ opt' = [opt EXCEPT
                  !.pc = "iter",
                  !.param_names = ParamNames(opt.param_grid),
                  !.param_combinations = Product(ParamValues(opt.param_grid)),
                  !.results = <<>>,
                  !.best_result = None,
                  !.best_params = None,
                  !.best_metric_value = NegInf]
    /\ UNCHANGED <<exchange, strategy, args, rpc, data, i, state,
                   equity_curve, analysis_data, result, hist, wf, prev, util,
                   conc>>

SetParamsSynced(s, param_dict) ==
    Update(Update(s, param_dict),
           [parameters |-> Update(s.parameters, param_dict)])

\* lines 581-582: setattr(self.strategy, name, value) for each item of
\* param_dict; no other attribute of the strategy is assigned
SetParams(s, param_dict) == Update(s, param_dict)

\* lines 578-593: the parameters are set on the strategy and run is called
OptTrial ==
    /\ opt # None
    /\ opt.pc = "iter"
    /\ opt.k < Len(opt.param_combinations)
    /\ LET param_dict ==
               ParamDict(opt.param_names, opt.param_combinations[opt.k + 1])
       IN  /\ strategy' = SetParams(strategy, param_dict)
           /\ opt' = [opt EXCEPT !.pc = "running", !.param_dict = param_dict]
    /\ rpc' = "call"
    /\ UNCHANGED <<exchange, args, data, i, state, equity_curve,
                   analysis_data, result, hist, wf, prev, util, conc>>

AfterTrialAbort(res, k, n) == IF res = None THEN n ELSE k + 1

\* line 578: the for loop goes on to the next combination whatever the
\* trial returned
AfterTrial(res, k, n) == k + 1

\* line 600
Better(metric_value, best_metric_value) == RGt(metric_value, best_metric_value)

\* the index of a frame, as a set (None has no day)
Days(df) ==
    IF df = None THEN {} ELSE {df.timestamp[k] : k \in 1..NRows(df)}

\* lines 595-611, for the result the trial returned
OptCollect ==
    /\ opt # None
    /\ opt.pc = "running"
    /\ rpc = "returned"
    /\ LET metric_value ==
               IF result # None THEN MetricValue(result.metrics, opt.metric)
               ELSE Zero
           best == result # None /\ Better(metric_value, opt.best_metric_value)
       IN  opt' = [opt EXCEPT
                      !.pc = "iter",
                      !.k = AfterTrial(result, opt.k, Len(opt.param_combinations)),
                      !.best_metric_value = IF best THEN metric_value ELSE @,
                      !.best_result = IF best THEN result ELSE @,
                      !.best_params = IF best THEN opt.param_dict ELSE @,
                      !.results =
                          IF result # None
                          THEN Append(@, [params |-> opt.param_dict,
                                          metrics |-> result.metrics])
                          ELSE @,
                      !.trials =
                          Append(@, [params |-> opt.param_dict,
                                     ok |-> result # None,
                                     value |-> metric_value,
                                     days |-> Days(data)])]
    /\ rpc' = "idle"
    /\ RunResetNext
    /\ UNCHANGED <<exchange, strategy, args, wf, prev, util, conc>>

StrategyWithBest(s, best_params) ==
    IF best_params = None THEN s ELSE Update(s, best_params)

\* lines 613-630: the report is built and returned; the strategy is left
\* with the attributes the last turn of the loop set
StrategyReturned(s, best_params) == s

\* lines 613-630
OptFinish ==
    /\ opt # None
    /\ opt.pc = "iter"
    /\ opt.k >= Len(opt.param_combinations)
    /\ opt' = [opt EXCEPT
                  !.pc = "done",
                  !.ret = [strategy |-> strategy.name,
                           symbol |-> args.symbol,
                           timeframe |-> args.timeframe,
                           start_date |-> args.start_date,
                           end_date |-> args.end_date,
                           optimization_metric |-> opt.metric,
                           num_combinations |-> Len(opt.param_combinations),
                           best_params |-> opt.best_params,
                           best_metric_value |-> opt.best_metric_value,
                           best_result |->
                               IF opt.best_result # None
                               THEN opt.best_result.metrics ELSE None,
                           all_results |-> opt.results]]
    /\ strategy' = StrategyReturned(strategy, opt.best_params)
    /\ UNCHANGED <<exchange, args, rpc, data, i, state, equity_curve,
                   analysis_data, result, hist, wf, prev, util, conc>>

(* -------------------------------- inputs ------------------------------- *)
Prices == {1, 2}

\* the price series of at most n candles
Series(n) == UNION {[1..k -> Prices] : k \in 0..n}

\* the feed that cannot deliver, and the feeds that deliver a series
Feeds(n) ==
    {[ohlcv |-> <<>>, fails |-> TRUE]}
        \cup {[ohlcv |-> s, fails |-> FALSE] : s \in Series(n)}

\* the strategy that returns hold at every candle
HoldStrategy(m) == FixedStrategy(m, <<>>)

Strategies ==
    {ScriptedStrategy(0), ScriptedStrategy(1), ScriptedStrategy(2),
     HoldStrategy(0), HoldStrategy(1),
     MovingAverageStrategy(1, 2), MovingAverageStrategy(2, 3),
     RSIStrategy(1, 30, 70), RSIStrategy(2, 30, 70)}

\* start_date / end_date: None or a day; the candles are those of days 1, 2, ...
StartDates == {<<>>, <<2>>}

EndDates == {<<>>, <<1>>}

\* initial capital is positive and the commission a percentage below 100,
\* so cash stays positive
Capitals == {R(1000)}

Commissions == {Zero, R(1), R(50)}

Calls ==
    [symbol : {"BTC/USDT"}, timeframe : {"1h"}, start_date : StartDates,
     end_date : EndDates, initial_capital : Capitals,
     commission_pct : Commissions]

\* a Backtester is constructed (lines 338-351) and run is called on it
Init ==
    /\ exchange \in {None} \cup Feeds(MaxCandles)
    /\ strategy \in Strategies
    /\ args \in Calls
    /\ rpc = "call"
    /\ RunReset
    /\ opt = None
    /\ wf = None
    /\ prev = None
    /\ util = None
    /\ conc = None

Next ==
    \/ RunNoExchange
    \/ RunFetchRaises
    \/ RunNoData
    \/ RunPrepare
    \/ RunSkip
    \/ RunSignalRaises
    \/ RunBuy
    \/ RunSell
    \/ RunHold
    \/ RunFinish

Spec == Init /\ [][Next]_vars

(* ----------------------- a call of optimize --------------------------- *)
Grids ==
    {<<>>,
     <<[name |-> "short_window", values |-> <<1, 2>>]>>,
     <<[name |-> "short_window", values |-> <<1, 2>>],
       [name |-> "long_window", values |-> <<2, 3>>]>>}

Metrics == {"total_return", "no_such_metric"}

OptStrategies == {ScriptedStrategy(0), MovingAverageStrategy(1, 1)}

OptCalls ==
    [symbol : {"BTC/USDT"}, timeframe : {"1h"}, start_date : {<<>>},
     end_date : {<<>>}, initial_capital : Capitals,
     commission_pct : {Zero, R(1)}]

\* the locals of optimize; trials is the history of the trials made
OptLocals(grid, metric) ==
    [pc |-> "start", param_grid |-> grid, metric |-> metric,
     param_names |-> <<>>, param_combinations |-> <<>>, k |-> 0,
     param_dict |-> <<>>, results |-> <<>>, best_result |-> None,
     best_params |-> None, best_metric_value |-> NegInf, ret |-> None,
     trials |-> <<>>]

\* a Backtester is constructed and optimize is called on it
OptInit ==
    /\ exchange \in {None} \cup Feeds(MaxOptCandles)
    /\ strategy \in OptStrategies
    /\ args \in OptCalls
    /\ rpc = "idle"
    /\ RunReset
    /\ opt \in {OptLocals(g, m) : g \in Grids, m \in Metrics}
    /\ wf = None
    /\ prev = None
    /\ util = None
    /\ conc = None

OptNext ==
    \/ OptNoExchange
    \/ OptStart
    \/ OptTrial
    \/ OptCollect
    \/ OptFinish
    \/ RunFetchRaises
    \/ RunNoData
    \/ RunPrepare
    \/ RunSkip
    \/ RunSignalRaises
    \/ RunBuy
    \/ RunSell
    \/ RunHold
    \/ RunFinish

OptSpec == OptInit /\ [][OptNext]_vars

(* ------------------- Backtester.walk_forward_test --------------------- *)
\* dates are day numbers: start_dt, end_dt and the bounds of a window are
\* midnights, and strftime('%Y-%m-%d') / strptime keep the day

FitsInclusive(current_start, window_size, end_dt) ==
    current_start + window_size <= end_dt

\* line 684: the condition of the while loop
Fits(current_start, window_size, end_dt) ==
    current_start + window_size < end_dt

Min(a, b) == IF a < b THEN a ELSE b

\* lines 685-695
Window(current_start, window_size, step_size, end_dt) ==
    LET train_start == current_start
        train_end == train_start + window_size
        test_start == train_end
        test_end == Min(test_start + step_size, end_dt)
    IN  [train_start |-> train_start, train_end |-> train_end,
         test_start |-> test_start, test_end |-> test_end]

\* the locals of walk_forward_test when it is called with the arguments call;
\* log is the history of the windows processed
WfLocals(call) ==
    [pc |-> "start", call |-> call, windows |-> <<>>, current_start |-> 0,
     k |-> 0, window_results |-> <<>>, consolidated_trades |-> <<>>,
     equity_curve_data |-> <<>>, current_capital |-> Zero,
     opt_results |-> None, combined_equity |-> <<>>, ret |-> None,
     train_days |-> {}, log |-> <<>>]

\* lines 655-657
WfNoExchange ==
    /\ wf # None
    /\ wf.pc = "start"
    /\ exchange = None
    /\ wf' = [wf EXCEPT !.pc = "done",
                        !.ret = [error |-> "Exchange not initialized"]]
    /\ UNCHANGED <<exchange, strategy, args, rpc, data, i, state,
                   equity_curve, analysis_data, result, hist, opt, prev,
                   util, conc>>

\* lines 659-661
WfNoGrid ==
    /\ wf # None
    /\ wf.pc = "start"
    /\ exchange # None
    /\ wf.call.param_grid = <<>>
    /\ wf' = [wf EXCEPT !.pc = "done",
                        !.ret = [error |-> "No parameter grid specified"]]
    /\ UNCHANGED <<exchange, strategy, args, rpc, data, i, state,
                   equity_curve, analysis_data, result, hist, opt, prev,
                   util, conc>>

\* lines 663-682
WfBegin ==
    /\ wf # None
    /\ wf.pc = "start"
    /\ exchange # None
    /\ wf.call.param_grid # <<>>
    /\ wf' = [wf EXCEPT !.pc = "gen", !.windows = <<>>,
                        !.current_start = wf.call.start_date[1]]
    /\ UNCHANGED <<exchange, strategy, args, rpc, data, i, state,
                   equity_curve, analysis_data, result, hist, opt, prev,
                   util, conc>>

\* the start of the next window when steps below one day are refused
NextStartForward(current_start, step_size) ==
    current_start + (IF step_size < 1 THEN 1 ELSE step_size)

\* line 697
NextStart(current_start, step_size) == current_start + step_size

\* the earliest day a datetime can hold
datetime_min == 1 - MaxDaysBack

\* line 697: datetime + timedelta raises OverflowError below datetime.min
OutOfRange(day) == day < datetime_min

\* lines 684-697: one turn of the while loop
WfGenWindow ==
    /\ wf # None
    /\ wf.pc = "gen"
    /\ Fits(wf.current_start, wf.call.window_size, wf.call.end_date[1])
    /\ ~OutOfRange(NextStart(wf.current_start, wf.call.step_size))
    /\ Len(wf.windows) < MaxWindows
    /\ wf' = [wf EXCEPT
                 !.windows =
                     Append(@, Window(wf.current_start, wf.call.window_size,
                                      wf.call.step_size, wf.call.end_date[1])),
                 !.current_start = NextStart(@, wf.call.step_size)]
    /\ UNCHANGED <<exchange, strategy, args, rpc, data, i, state,
                   equity_curve, analysis_data, result, hist, opt, prev,
                   util, conc>>

\* lines 684-697, 800-804: the window is appended, the next start is out of
\* the range of datetime, and the exception handler returns the error
WfGenOverflow ==
    /\ wf # None
    /\ wf.pc = "gen"
    /\ Fits(wf.current_start, wf.call.window_size, wf.call.end_date[1])
    /\ OutOfRange(NextStart(wf.current_start, wf.call.step_size))
    /\ Len(wf.windows) < MaxWindows
    /\ wf' = [wf EXCEPT
                 !.windows =
                     Append(@, Window(wf.current_start, wf.call.window_size,
                                      wf.call.step_size, wf.call.end_date[1])),
                 !.pc = "done",
                 !.ret = [error |-> "date value out of range"]]
    /\ UNCHANGED <<exchange, strategy, args, rpc, data, i, state,
                   equity_curve, analysis_data, result, hist, opt, prev,
                   util, conc>>

StartingCapitalNone(initial_capital) == Zero

\* line 705: current_capital = initial_capital
StartingCapital(initial_capital) == initial_capital

\* lines 684, 699-705: the while loop ends
WfGenDone ==
    /\ wf # None
    /\ wf.pc = "gen"
    /\ ~Fits(wf.current_start, wf.call.window_size, wf.call.end_date[1])
    /\ wf' = [wf EXCEPT !.pc = "windows", !.k = 0, !.window_results = <<>>,
                        !.consolidated_trades = <<>>,
                        !.equity_curve_data = <<>>,
                        !.current_capital =
                            StartingCapital(wf.call.initial_capital)]
    /\ UNCHANGED <<exchange, strategy, args, rpc, data, i, state,
                   equity_curve, analysis_data, result, hist, opt, prev,
                   util, conc>>

\* the arguments walk_forward_test passes on, for the dates and capital given
WfArgs(start_day, end_day, capital) ==
    [symbol |-> wf.call.symbol, timeframe |-> wf.call.timeframe,
     start_date |-> <<start_day>>, end_date |-> <<end_day>>,
     initial_capital |-> capital, commission_pct |-> wf.call.commission_pct]

\* lines 707-720: optimize is called on the training span of window k + 1
WfOptimize ==
    /\ wf # None
    /\ wf.pc = "windows"
    /\ wf.k < Len(wf.windows)
    /\ LET window == wf.windows[wf.k + 1]
       IN  args' = WfArgs(window.train_start, window.train_end,
                          wf.current_capital)
    /\ opt' = OptLocals(wf.call.param_grid, wf.call.metric)
    /\ wf' = [wf EXCEPT !.pc = "optimizing"]
    /\ UNCHANGED <<exchange, strategy, rpc, data, i, state, equity_curve,
                   analysis_data, result, hist, prev, util, conc>>

\* line 722: 'error' in opt_results or not opt_results['best_params']
OptFailed(opt_results) ==
    \/ "error" \in DOMAIN opt_results
    \/ opt_results.best_params = None
    \/ DOMAIN opt_results.best_params = {}

\* the days of the candles the trials of an optimization were given
TrialDays(trials) == UNION {trials[j].days : j \in 1..Len(trials)}

AfterFailedWindowBreak(k, n) == n

\* lines 724, 742: continue
AfterFailedWindow(k, n) == k + 1

\* lines 722-724: the optimization of the window failed
WfOptFailed ==
    /\ wf # None
    /\ wf.pc = "optimizing"
    /\ opt # None
    /\ opt.pc = "done"
    /\ OptFailed(opt.ret)
    /\ wf' = [wf EXCEPT
                 !.pc = "windows",
                 !.k = AfterFailedWindow(wf.k, Len(wf.windows)),
                 !.log = Append(@, [outcome |-> "optimization failed",
                                    capital |-> wf.current_capital,
                                    train_days |-> TrialDays(opt.trials),
                                    test_days |-> {}])]
    /\ opt' = None
    /\ UNCHANGED <<exchange, strategy, args, rpc, data, i, state,
                   equity_curve, analysis_data, result, hist, prev, util,
                   conc>>

SetBestParamsSkipped(s, opt_results) == s

\* lines 726-728: setattr(self.strategy, name, value) for each item of
\* opt_results['best_params']
SetBestParams(s, opt_results) == Update(s, opt_results.best_params)

\* lines 726-738: the best parameters are set on the strategy and run is
\* called on the test span of the window
WfTest ==
    /\ wf # None
    /\ wf.pc = "optimizing"
    /\ opt # None
    /\ opt.pc = "done"
    /\ ~OptFailed(opt.ret)
    /\ strategy' = SetBestParams(strategy, opt.ret)
    /\ LET window == wf.windows[wf.k + 1]
       IN  args' = WfArgs(window.test_start, window.test_end,
                          wf.current_capital)
    /\ rpc' = "call"
    /\ wf' = [wf EXCEPT !.pc = "testing", !.opt_results = opt.ret,
                        !.train_days = TrialDays(opt.trials)]
    /\ opt' = None
    /\ UNCHANGED <<exchange, data, i, state, equity_curve, analysis_data,
                   result, hist, prev, util, conc>>

\* lines 740-742: the test run of the window failed
WfTestFailed ==
    /\ wf # None
    /\ wf.pc = "testing"
    /\ rpc = "returned"
    /\ result = None
    /\ wf' = [wf EXCEPT
                 !.pc = "windows",
                 !.k = AfterFailedWindow(wf.k, Len(wf.windows)),
                 !.opt_results = None,
                 !.train_days = {},
                 !.log = Append(@, [outcome |-> "test failed",
                                    capital |-> wf.current_capital,
                                    train_days |-> wf.train_days,
                                    test_days |-> Days(data)])]
    /\ rpc' = "idle"
    /\ RunResetNext
    /\ UNCHANGED <<exchange, strategy, args, opt, prev, util, conc>>

NextCapitalKept(test_result) == wf.current_capital

\* line 745: test_result.equity_curve['equity'].iloc[-1]
NextCapital(test_result) ==
    test_result.equity_curve[Len(test_result.equity_curve)]

\* lines 744-759: the test run of the window returned a result
WfCollect ==
    /\ wf # None
    /\ wf.pc = "testing"
    /\ rpc = "returned"
    /\ result # None
    /\ LET window_result ==
               [window |-> wf.windows[wf.k + 1],
                train_params |-> wf.opt_results.best_params,
                train_metrics |-> wf.opt_results.best_result,
                test_metrics |-> result.metrics,
                test_trades |-> Len(result.trades),
                test_equity |->
                    result.equity_curve[Len(result.equity_curve)]]
       IN  wf' = [wf EXCEPT
                     !.pc = "windows",
                     !.k = @ + 1,
                     !.current_capital = NextCapital(result),
                     !.window_results = Append(@, window_result),
                     !.consolidated_trades = @ \o result.trades,
                     !.equity_curve_data =
                         Append(@, [timestamp |-> data.timestamp,
                                    equity |-> result.equity_curve]),
                     !.opt_results = None,
                     !.train_days = {},
                     !.log = Append(@, [outcome |-> "completed",
                                        capital |-> wf.current_capital,
                                        train_days |-> wf.train_days,
                                        test_days |-> Days(data)])]
    /\ rpc' = "idle"
    /\ RunResetNext
    /\ UNCHANGED <<exchange, strategy, args, opt, prev, util, conc>>

\* the rows [timestamp, equity] of an equity curve
Rows(curve) ==
    [k \in 1..Len(curve.timestamp) |->
        [timestamp |-> curve.timestamp[k], equity |-> curve.equity[k]]]

\* line 762: pd.concat(equity_curve_data)
RECURSIVE Concat(_)
Concat(curves) ==
    IF curves = <<>> THEN <<>>
    ELSE Rows(Head(curves)) \o Concat(Tail(curves))

\* the rows whose position is in keep, in their order
RECURSIVE Restrict(_, _)
Restrict(rows, keep) ==
    IF rows = <<>> THEN <<>>
    ELSE LET n == Len(rows)
             init == Restrict(SubSeq(rows, 1, n - 1), keep)
         IN  IF n \in keep THEN Append(init, rows[n]) ELSE init

DropDuplicatedKeepLast(rows) ==
    Restrict(rows, {k \in 1..Len(rows) :
                       \A j \in (k + 1)..Len(rows) :
                           rows[j].timestamp # rows[k].timestamp})

\* line 764: combined_equity[~combined_equity.index.duplicated(keep='first')]
DropDuplicated(rows) ==
    Restrict(rows, {k \in 1..Len(rows) :
                       \A j \in 1..(k - 1) :
                           rows[j].timestamp # rows[k].timestamp})

\* line 765: sort_index(), by insertion
RECURSIVE SortIndex(_)
SortIndex(rows) ==
    IF rows = <<>> THEN <<>>
    ELSE LET n == Len(rows)
             x == rows[n]
             sorted == SortIndex(SubSeq(rows, 1, n - 1))
         IN  SelectSeq(sorted, LAMBDA r : r.timestamp <= x.timestamp)
                 \o <<x>>
                 \o SelectSeq(sorted, LAMBDA r : r.timestamp > x.timestamp)

\* lines 761-767
CombinedEquity(equity_curve_data) ==
    IF equity_curve_data # <<>>
    THEN SortIndex(DropDuplicated(Concat(equity_curve_data)))
    ELSE <<>>

\* lines 761-798: the for loop is over
WfFinish ==
    /\ wf # None
    /\ wf.pc = "windows"
    /\ wf.k >= Len(wf.windows)
    /\ LET combined_equity == CombinedEquity(wf.equity_curve_data)
           consolidated_result ==
               BacktestResult(strategy.name, wf.call.symbol,
                              wf.call.timeframe, wf.call.initial_capital,
                              wf.consolidated_trades,
                              [k \in 1..Len(combined_equity) |->
                                  combined_equity[k].equity])
       IN  wf' = [wf EXCEPT
                     !.pc = "done",
                     !.combined_equity = combined_equity,
                     !.ret =
                         [strategy |-> strategy.name,
                          symbol |-> wf.call.symbol,
                          timeframe |-> wf.call.timeframe,
                          start_date |-> wf.call.start_date,
                          end_date |-> wf.call.end_date,
                          window_size |-> wf.call.window_size,
                          step_size |-> wf.call.step_size,
                          num_windows |-> Len(wf.windows),
                          completed_windows |-> Len(wf.window_results),
                          window_results |-> wf.window_results,
                          consolidated_metrics |-> consolidated_result.metrics,
                          final_equity |-> wf.current_capital,
                          total_return_pct |->
                              RMul(RDiv(RSub(wf.current_capital,
                                             wf.call.initial_capital),
                                        wf.call.initial_capital), R(100))]]
    /\ UNCHANGED <<exchange, strategy, args, rpc, data, i, state,
                   equity_curve, analysis_data, result, hist, opt, prev,
                   util, conc>>

(* ------------------ a call of walk_forward_test ----------------------- *)
\* the arguments of the call: the span is days 1 to 4, which training spans
\* of one day and steps of one day divide into two windows, or days 1 to 2,
\* in which no window fits
WfGrids ==
    {<<>>, <<[name |-> "short_window", values |-> <<1, 2>>]>>}

WfCalls ==
    [symbol : {"BTC/USDT"}, param_grid : WfGrids, timeframe : {"1d"},
     start_date : {<<1>>}, end_date : {<<2>>, <<4>>}, window_size : {1},
     step_size : {1}, initial_capital : Capitals, commission_pct : {R(1)},
     metric : {"total_return"}]

WfStrategies == {ScriptedStrategy(0), MovingAverageStrategy(1, 1)}

\* the arguments of a call of run or optimize that has not been made
NoArgs ==
    [symbol |-> "", timeframe |-> "", start_date |-> <<>>, end_date |-> <<>>,
     initial_capital |-> Zero, commission_pct |-> Zero]

\* a Backtester is constructed and walk_forward_test is called on it
WfInit ==
    /\ exchange \in {None} \cup Feeds(MaxWfCandles)
    /\ strategy \in WfStrategies
    /\ args = NoArgs
    /\ rpc = "idle"
    /\ RunReset
    /\ opt = None
    /\ wf \in {WfLocals(c) : c \in WfCalls}
    /\ prev = None
    /\ util = None
    /\ conc = None

WfNext ==
    \/ WfNoExchange
    \/ WfNoGrid
    \/ WfBegin
    \/ WfGenWindow
    \/ WfGenDone
    \/ WfOptimize
    \/ WfOptFailed
    \/ WfTest
    \/ WfTestFailed
    \/ WfCollect
    \/ WfFinish
    \/ OptStart
    \/ OptTrial
    \/ OptCollect
    \/ OptFinish
    \/ RunFetchRaises
    \/ RunNoData
    \/ RunPrepare
    \/ RunSkip
    \/ RunSignalRaises
    \/ RunBuy
    \/ RunSell
    \/ RunHold
    \/ RunFinish

WfSpec == WfInit /\ [][WfNext]_vars

(* ------------- the windows of a call of walk_forward_test ------------- *)
\* window_size 30 and step_size 10 over a span of 100 days
ScenarioD ==
    [symbol |-> "BTC/USDT",
     param_grid |-> <<[name |-> "short_window", values |-> <<1, 2>>]>>,
     timeframe |-> "1d", start_date |-> <<1>>, end_date |-> <<101>>,
     window_size |-> 30, step_size |-> 10, initial_capital |-> R(1000),
     commission_pct |-> R(1), metric |-> "total_return"]

\* spans of 0 to MaxSpan days from day 1, with training spans and steps of at
\* least one day
GenCalls ==
    {[ScenarioD EXCEPT !.end_date = <<1 + span>>, !.window_size = w,
                       !.step_size = s] :
        span \in 0..MaxSpan, w \in 1..MaxWindow, s \in 1..MaxStep}
        \cup {ScenarioD}

\* walk_forward_test is called on a Backtester that has an exchange
GenInit ==
    /\ exchange = [ohlcv |-> <<>>, fails |-> FALSE]
    /\ strategy = ScriptedStrategy(0)
    /\ args = NoArgs
    /\ rpc = "idle"
    /\ RunReset
    /\ opt = None
    /\ wf \in {WfLocals(c) : c \in GenCalls}
    /\ prev = None
    /\ util = None
    /\ conc = None

\* the steps of walk_forward_test up to the end of its while loop
GenNext ==
    \/ WfBegin
    \/ WfGenWindow
    \/ WfGenDone

GenSpec == GenInit /\ [][GenNext]_vars

\* spans of 0 to MaxSpan days from day 1 with any step_size, which nothing
\* validates: negative, zero or positive
StepCalls ==
    {[ScenarioD EXCEPT !.end_date = <<1 + span>>, !.window_size = w,
                       !.step_size = s] :
        span \in 0..MaxSpan, w \in 1..MaxWindow, s \in (0 - MaxStep)..MaxStep}

StepInit ==
    /\ exchange = [ohlcv |-> <<>>, fails |-> FALSE]
    /\ strategy = ScriptedStrategy(0)
    /\ args = NoArgs
    /\ rpc = "idle"
    /\ RunReset
    /\ opt = None
    /\ wf \in {WfLocals(c) : c \in StepCalls}
    /\ prev = None
    /\ util = None
    /\ conc = None

StepNext ==
    \/ WfBegin
    \/ WfGenWindow
    \/ WfGenOverflow
    \/ WfGenDone

\* a thread that can take its next statement takes it
StepSpec ==
    /\ StepInit
    /\ [][StepNext]_vars
    /\ WF_vars(WfBegin)
    /\ WF_vars(WfGenWindow)
    /\ WF_vars(WfGenOverflow)
    /\ WF_vars(WfGenDone)

(* --------------------------- trading_utils.py -------------------------- *)
\* a series is a sequence of floats; a trade list a sequence of [profit]

\* lines 98-121: the loop over the trades, with the counters as they are after
\* the trades of ts
RECURSIVE LossRun(_)
LossRun(ts) ==
    IF ts = <<>> THEN [max_consecutive |-> 0, current_consecutive |-> 0]
    ELSE LET n == Len(ts)
             before == LossRun(SubSeq(ts, 1, n - 1))
         IN  IF RLt(ts[n].profit, Zero)
             THEN LET c == before.current_consecutive + 1
                  IN  [max_consecutive |->
                           IF c > before.max_consecutive
                           THEN c ELSE before.max_consecutive,
                       current_consecutive |-> c]
             ELSE [before EXCEPT !.current_consecutive = 0]

calculate_max_consecutive_losses(trades) == LossRun(trades).max_consecutive

\* the sum of the profits of the trades of ts that keep selects
RECURSIVE SumProfitsIn(_, _)
SumProfitsIn(ts, keep) ==
    IF ts = <<>> THEN Zero
    ELSE LET rest == SumProfitsIn(Tail(ts), keep)
         IN  IF RSign(Head(ts).profit) \in keep
             THEN RAdd(Head(ts).profit, rest) ELSE rest

RAbs(a) == IF a[1] < 0 THEN RNeg(a) ELSE a

\* lines 124-143
calculate_profit_factor(trades) ==
    IF trades = <<>> THEN Zero
    ELSE LET gross_profit == SumProfitsIn(trades, {1})
             gross_loss == RAbs(SumProfitsIn(trades, {-1}))
         IN  IF gross_loss = Zero
             THEN IF RGt(gross_profit, Zero) THEN PosInf ELSE Zero
             ELSE RDiv(gross_profit, gross_loss)

\* backtester.py lines 73-111: metrics['profit_factor'] of a BacktestResult
MetricsProfitFactor(trades) ==
    IF Len(trades) = 0 THEN Zero
    ELSE LET total_profit == SumProfitsIn(trades, {1})
             total_loss == RAbs(SumProfitsIn(trades, {-1, 0}))
         IN  IF RGt(total_loss, Zero) THEN RDiv(total_profit, total_loss)
             ELSE PosInf

\* equity_series.cummax()
CumMax(values) ==
    [k \in 1..Len(values) |->
        CHOOSE v \in {values[j] : j \in 1..k} :
            \A j \in 1..k : RGe(v, values[j])]

\* Series.min(): the least of the values that are not NaN, NaN if none
SeriesMin(values) ==
    LET known == {values[k] : k \in 1..Len(values)} \ {NaN}
    IN  IF known = {} THEN NaN
        ELSE CHOOSE v \in known : \A w \in known : RLe(v, w)

\* lines 14-34
calculate_drawdown(equity_series) ==
    IF Len(equity_series) = 0 THEN Zero
    ELSE LET running_max == CumMax(equity_series)
             drawdown ==
                 [k \in 1..Len(equity_series) |->
                     FDiv(RSub(equity_series[k], running_max[k]),
                          running_max[k])]
         IN  IF ~IsNaN(SeriesMin(drawdown)) THEN RAbs(SeriesMin(drawdown))
             ELSE Zero

\* equity.pct_change().dropna(): the first change and every 0 / 0 are NaN
\* and are dropped
PctChange(values) ==
    LET change(k) == FDiv(RSub(values[k + 1], values[k]), values[k])
        RECURSIVE From(_)
        From(k) ==
            IF k >= Len(values) THEN <<>>
            ELSE IF IsNaN(change(k)) THEN From(k + 1)
            ELSE <<change(k)>> \o From(k + 1)
    IN  From(1)

RECURSIVE RSum(_)
RSum(xs) == IF xs = <<>> THEN Zero ELSE RAdd(Head(xs), RSum(Tail(xs)))

Mean(xs) == RDiv(RSum(xs), R(Len(xs)))

\* Series.std() squared: the sample variance (ddof = 1) of two values or more
Variance(xs) ==
    LET d == [k \in 1..Len(xs) |-> RSub(xs[k], Mean(xs))]
    IN  RDiv(RSum([k \in 1..Len(xs) |-> RMul(d[k], d[k])]), R(Len(xs) - 1))

\* a ratio that has a square root in it is the pair [q, r] that stands for
\* q * sqrt(r), with r = 1 when q is zero or not finite
Surd(q, r) == IF q[2] = 0 \/ q = Zero THEN [q |-> q, r |-> R(1)]
              ELSE [q |-> q, r |-> r]

NaNKept(s) == s

\* line 61: sharpe_ratio if not np.isnan(sharpe_ratio) else 0.0
NaNToZero(s) == IF IsNaN(s.q) THEN Surd(Zero, R(1)) ELSE s

\* lines 37-61, with the default risk_free_rate 0 (rf_per_period is then
\* 1 ** (1 / 252) - 1 = 0) and periods_per_year 252; a return that is not
\* finite makes the standard deviation, and so the ratio, NaN
calculate_sharpe_ratio(returns) ==
    IF Len(returns) < 2 THEN Surd(Zero, R(1))
    ELSE LET excess_returns == returns
             finite == \A k \in 1..Len(returns) : returns[k][2] # 0
             sharpe_ratio ==
                 IF ~finite THEN Surd(NaN, R(1))
                 ELSE IF Variance(excess_returns) = Zero
                      THEN Surd(FDiv(Mean(excess_returns), Zero), R(1))
                 ELSE Surd(Mean(excess_returns),
                           RDiv(R(252), Variance(excess_returns)))
         IN  NaNToZero(sharpe_ratio)

\* (end - start).days of an index of hours
ElapsedDays(index) == (index[Len(index)] - index[1]) \div 24

\* an annualized return is the triple that stands for
\* (growth ** (1 / years) - 1) * scale; with years = 1 it is the return itself
Annual(growth, years, scale) ==
    [growth |-> growth, years |-> years, scale |-> scale]

\* lines 237-275; series is [values, index, datetime]
calculate_annualized_return(series) ==
    IF Len(series.values) < 2 THEN Annual(R(1), R(1), 1)
    ELSE LET start_value == series.values[1]
             end_value == series.values[Len(series.values)]
             growth == FDiv(end_value, start_value)
             duration_days ==
                 IF series.datetime THEN ElapsedDays(series.index)
                 ELSE Len(series.values) - 1
         IN  IF duration_days <= 0 THEN Annual(growth, R(1), 1)
             ELSE Annual(growth, Rat(duration_days, 365), 1)

\* backtester.py lines 73-100, 139: metrics['annualized_return'] of a
\* BacktestResult whose equity curve is series
MetricsAnnualizedReturn(initial_capital, trades, series) ==
    IF Len(trades) = 0 THEN Annual(R(1), R(1), 1)
    ELSE LET final_equity == series.values[Len(series.values)]
             total_return == RSub(final_equity, initial_capital)
             total_return_pct ==
                 RMul(RDiv(total_return, initial_capital), R(100))
             days == ElapsedDays(series.index)
         IN  IF days > 0
             THEN Annual(RAdd(R(1), RDiv(total_return_pct, R(100))),
                         Rat(days, 365), 100)
             ELSE Annual(R(1), R(1), 100)

(* ---------------------- calls of the metric functions ----------------- *)
RECURSIVE SeqsUpTo(_, _)
SeqsUpTo(S, n) ==
    IF n = 0 THEN {<<>>}
    ELSE LET shorter == SeqsUpTo(S, n - 1)
         IN  shorter \cup {Append(s, x) : s \in shorter, x \in S}

\* trade lists of losing, break-even and winning trades
TradeLists ==
    {[k \in 1..Len(ps) |-> [profit |-> R(ps[k])]] :
        ps \in SeqsUpTo({-1, 0, 2}, MaxTrades)}

\* series of values 0, 1 and 2 on an index of hours that is hourly or daily,
\* and is or is not a DatetimeIndex
SeriesInputs ==
    {[values |-> [k \in 1..Len(vs) |-> R(vs[k])],
      index |-> [k \in 1..Len(vs) |-> (k - 1) * hours],
      datetime |-> dt] :
        vs \in SeqsUpTo({0, 1, 2}, MaxPoints), hours \in {1, 24},
        dt \in BOOLEAN}

\* every trade list with the curve of one point, and every series with no
\* trade and with one trade
UtilInputs ==
    (TradeLists \X {[values |-> <<R(1)>>, index |-> <<0>>,
                      datetime |-> TRUE]})
        \cup ({<<>>, <<[profit |-> R(2)]>>} \X SeriesInputs)

\* what no function has returned yet
NoOutputs ==
    [max_consecutive_losses |-> 0, profit_factor |-> Zero,
     metrics_profit_factor |-> Zero, drawdown |-> Zero,
     sharpe |-> Surd(Zero, R(1)), annualized |-> Annual(R(1), R(1), 1),
     metrics_annualized |-> Annual(R(1), R(1), 1)]

UtilInit ==
    /\ exchange = None
    /\ strategy = ScriptedStrategy(0)
    /\ args = NoArgs
    /\ rpc = "idle"
    /\ RunReset
    /\ opt = None
    /\ wf = None
    /\ prev = None
    /\ util \in {[trades |-> in[1], series |-> in[2],
                   initial_capital |-> R(1), called |-> "none",
                   out |-> NoOutputs] : in \in UtilInputs}
    /\ conc = None

UtilUnchanged ==
    UNCHANGED <<exchange, strategy, args, rpc, data, i, state, equity_curve,
                analysis_data, result, hist, opt, wf, prev, conc>>

CallMaxConsecutiveLosses ==
    /\ util # None
    /\ util.called = "none"
    /\ util' = [util EXCEPT !.called = "calculate_max_consecutive_losses",
                   !.out.max_consecutive_losses =
                       calculate_max_consecutive_losses(util.trades)]
    /\ UtilUnchanged

CallProfitFactor ==
    /\ util # None
    /\ util.called = "none"
    /\ util' = [util EXCEPT !.called = "calculate_profit_factor",
                   !.out.profit_factor = calculate_profit_factor(util.trades)]
    /\ UtilUnchanged

\* BacktestResult(...).metrics['profit_factor'] of a result that has an
\* equity curve on a DatetimeIndex (lines 91 and 95 raise without one)
CallMetricsProfitFactor ==
    /\ util # None
    /\ util.called = "none"
    /\ Len(util.series.values) > 0
    /\ util.series.datetime
    /\ util' = [util EXCEPT !.called = "metrics.profit_factor",
                   !.out.metrics_profit_factor =
                       MetricsProfitFactor(util.trades)]
    /\ UtilUnchanged

CallDrawdown ==
    /\ util # None
    /\ util.called = "none"
    /\ util' = [util EXCEPT !.called = "calculate_drawdown",
                   !.out.drawdown = calculate_drawdown(util.series.values)]
    /\ UtilUnchanged

\* calculate_sharpe_ratio of the returns of the series, as lines 117-118 of
\* backtester.py call it
CallSharpeOfCurve ==
    /\ util # None
    /\ util.called = "none"
    /\ util' = [util EXCEPT !.called = "calculate_sharpe_ratio(pct_change)",
                   !.out.sharpe =
                       calculate_sharpe_ratio(PctChange(util.series.values))]
    /\ UtilUnchanged

\* calculate_sharpe_ratio of the series itself
CallSharpe ==
    /\ util # None
    /\ util.called = "none"
    /\ util' = [util EXCEPT !.called = "calculate_sharpe_ratio",
                   !.out.sharpe = calculate_sharpe_ratio(util.series.values)]
    /\ UtilUnchanged

CallAnnualizedReturn ==
    /\ util # None
    /\ util.called = "none"
    /\ util' = [util EXCEPT !.called = "calculate_annualized_return",
                   !.out.annualized =
                       calculate_annualized_return(util.series)]
    /\ UtilUnchanged

\* BacktestResult(...).metrics['annualized_return'] of a result that has an
\* equity curve on a DatetimeIndex
CallMetricsAnnualizedReturn ==
    /\ util # None
    /\ util.called = "none"
    /\ Len(util.series.values) > 0
    /\ util.series.datetime
    /\ util' = [util EXCEPT !.called = "metrics.annualized_return",
                   !.out.metrics_annualized =
                       MetricsAnnualizedReturn(util.initial_capital,
                                               util.trades, util.series)]
    /\ UtilUnchanged

UtilNext ==
    \/ CallMaxConsecutiveLosses
    \/ CallProfitFactor
    \/ CallMetricsProfitFactor
    \/ CallDrawdown
    \/ CallSharpeOfCurve
    \/ CallSharpe
    \/ CallAnnualizedReturn
    \/ CallMetricsAnnualizedReturn

UtilSpec == UtilInit /\ [][UtilNext]_vars

(* ------------------ two optimizations at the same time ---------------- *)
\* conc is two tasks, each in the loop of optimize (lines 578-609) on a
\* Backtester of its own, and the Strategy instances they hold: one instance
\* for both tasks, or one for each. A task sets the attributes of its
\* combination one by one, runs, and records; a run reads each attribute
\* once, where the strategy prepares its data. The metrics of a run are
\* determined by the parameter values it read.
ConcTasks == {1, 2}

\* MovingAverageStrategy(): the attributes of a new instance
DefaultAttributes == [short_window |-> 20, long_window |-> 50]

ConcGrids ==
    {<<[name |-> "short_window", values |-> <<1, 2>>],
       [name |-> "long_window", values |-> <<3>>]>>,
     <<[name |-> "short_window", values |-> <<1>>],
       [name |-> "long_window", values |-> <<3, 4>>]>>,
     <<[name |-> "short_window", values |-> <<2>>],
       [name |-> "long_window", values |-> <<4>>]>>}

\* lines 566-576: the locals of optimize at the top of its loop
ConcLocals(grid) ==
    [param_names |-> ParamNames(grid),
     param_combinations |-> Product(ParamValues(grid)),
     k |-> 1, pc |-> "set", n |-> 1, read |-> <<>>, results |-> <<>>]

ConcInit ==
    /\ exchange = None
    /\ strategy = ScriptedStrategy(0)
    /\ args = NoArgs
    /\ rpc = "idle"
    /\ RunReset
    /\ opt = None
    /\ wf = None
    /\ prev = None
    /\ util = None
    /\ conc \in {[shared |-> s,
                   instances |-> [j \in ConcTasks |-> DefaultAttributes],
                   tasks |-> [t \in ConcTasks |-> ConcLocals(g[t])]] :
                     s \in BOOLEAN, g \in ConcGrids \X ConcGrids}

ConcUnchanged ==
    UNCHANGED <<exchange, strategy, args, rpc, data, i, state, equity_curve,
                analysis_data, result, hist, opt, wf, prev, util>>

\* self.strategy of the Backtester of task t
StrategyOf(t) == IF conc.shared THEN 1 ELSE t

SetAttrSkipped(obj, name, value) == obj

\* line 582: setattr(self.strategy, name, value)
SetAttr(obj, name, value) == [obj EXCEPT ![name] = value]

\* lines 581-582, one turn of the for loop over param_dict
ConcSetattr(t) ==
    /\ conc # None
    /\ conc.tasks[t].pc = "set"
    /\ LET l == conc.tasks[t]
           name == l.param_names[l.n]
           value == l.param_combinations[l.k][l.n]
           last == l.n = Len(l.param_names)
       IN  conc' = [conc EXCEPT
                      !.instances[StrategyOf(t)] = SetAttr(@, name, value),
                      !.tasks[t].n = IF last THEN 1 ELSE l.n + 1,
                      !.tasks[t].pc = IF last THEN "run" ELSE "set"]
    /\ ConcUnchanged

\* lines 586-593: the run reads the next attribute of its strategy
\* (strategy_base.py 158-159)
ConcRunRead(t) ==
    /\ conc # None
    /\ conc.tasks[t].pc = "run"
    /\ LET l == conc.tasks[t]
           name == l.param_names[l.n]
           last == l.n = Len(l.param_names)
       IN  conc' = [conc EXCEPT
                      !.tasks[t].read =
                          Append(@, conc.instances[StrategyOf(t)][name]),
                      !.tasks[t].n = IF last THEN 1 ELSE l.n + 1,
                      !.tasks[t].pc = IF last THEN "record" ELSE "run"]
    /\ ConcUnchanged

\* lines 597-609: the result of the run is stored under param_dict
ConcRecord(t) ==
    /\ conc # None
    /\ conc.tasks[t].pc = "record"
    /\ LET l == conc.tasks[t]
           param_dict == ParamDict(l.param_names, l.param_combinations[l.k])
           metrics == [run_with |-> ParamDict(l.param_names, l.read)]
       IN  conc' = [conc EXCEPT
                      !.tasks[t].results =
                          Append(@, [params |-> param_dict,
                                     metrics |-> metrics]),
                      !.tasks[t].read = <<>>,
                      !.tasks[t].k = l.k + 1,
                      !.tasks[t].pc =
                          IF l.k = Len(l.param_combinations) THEN "done"
                          ELSE "set"]
    /\ ConcUnchanged

ConcNext ==
    \/ \E t \in ConcTasks : ConcSetattr(t)
    \/ \E t \in ConcTasks : ConcRunRead(t)
    \/ \E t \in ConcTasks : ConcRecord(t)

ConcSpec == ConcInit /\ [][ConcNext]_vars

(* ----------------------- run on a rising series ----------------------- *)
\* n candles whose closes rise by one from first
Rising(first, n) == [k \in 1..n |-> first + k - 1]

\* the moving-average strategies, and a strategy that buys at the first
\* candle, sells at the third and buys again at the fourth
RisingStrategies ==
    {MovingAverageStrategy(s, l) : s \in 1..2, l \in 2..4}
        \cup {FixedStrategy(0, <<Returns(1), Returns(0), Returns(-1),
                                 Returns(1)>>)}

RisingCalls ==
    [symbol : {"BTC/USDT"}, timeframe : {"1h"}, start_date : {<<>>},
     end_date : {<<>>}, initial_capital : Capitals,
     commission_pct : {Zero, R(1)}]

\* a Backtester is constructed and run is called on a feed that rises
\* from 100
RisingInit ==
    /\ exchange \in {[ohlcv |-> Rising(100, n), fails |-> FALSE] :
                         n \in 1..MaxRisingCandles}
    /\ strategy \in RisingStrategies
    /\ args \in RisingCalls
    /\ rpc = "call"
    /\ RunReset
    /\ opt = None
    /\ wf = None
    /\ prev = None
    /\ util = None
    /\ conc = None

RisingNext ==
    \/ RunPrepare
    \/ RunSkip
    \/ RunSignalRaises
    \/ RunBuy
    \/ RunSell
    \/ RunHold
    \/ RunFinish

RisingSpec == RisingInit /\ [][RisingNext]_vars

(* ----------------------- run called a second time --------------------- *)
Outcomes == {Returns(1), Returns(-1), Returns(0), Raises}

\* strategies whose generate_signal is a function of the data it is given
TwiceStrategies ==
    {FixedStrategy(m, o) : m \in {0, 1}, o \in [1..MaxTwiceCandles -> Outcomes]}
        \cup {MovingAverageStrategy(1, 2)}

TwiceCalls ==
    [symbol : {"BTC/USDT"}, timeframe : {"1h"}, start_date : {<<>>},
     end_date : {<<>>}, initial_capital : Capitals, commission_pct : {R(1)}]

\* a Backtester is constructed and run is called on it; prev remembers the
\* attributes it was constructed with
TwiceInit ==
    /\ exchange \in {None} \cup Feeds(MaxTwiceCandles)
    /\ strategy \in TwiceStrategies
    /\ args \in TwiceCalls
    /\ rpc = "call"
    /\ RunReset
    /\ opt = None
    /\ wf = None
    /\ prev = [runs |-> 0, result |-> None, strategy |-> strategy,
               exchange |-> exchange]
    /\ util = None
    /\ conc = None

\* the caller keeps what run returned and calls run again with the same
\* arguments; the frame of the first call is dead, and the second call binds
\* its locals as it goes
RunAgain ==
    /\ prev # None
    /\ prev.runs = 0
    /\ rpc = "returned"
    /\ prev' = [prev EXCEPT !.runs = 1, !.result = result]
    /\ rpc' = "call"
    /\ hist' = NoHist
    /\ UNCHANGED <<exchange, strategy, args, data, i, state, equity_curve,
                   analysis_data, result, opt, wf, util, conc>>

TwiceNext ==
    \/ RunNoExchange
    \/ RunFetchRaises
    \/ RunNoData
    \/ RunPrepare
    \/ RunSkip
    \/ RunSignalRaises
    \/ RunBuy
    \/ RunSell
    \/ RunHold
    \/ RunFinish
    \/ RunAgain

TwiceSpec == TwiceInit /\ [][TwiceNext]_vars

(* ------------------------- properties of run --------------------------- *)
Holding(st) == RGt(st.position, Zero)

ExitKeys == {"exit_time", "exit_price", "profit", "profit_pct"}

\* C1: at most one position is open during a run: an open trade record
\* exists exactly when the position size is positive, an entry is made only
\* from a flat state with no open record, and while a position is held its
\* size and its record are either kept or closed, never replaced or added to.
C1_SinglePosition ==
    [][rpc = "loop" /\ rpc' = "loop" =>
          /\ (state'.current_trade # None) <=> Holding(state')
          /\ hist'.entries # hist.entries =>
                /\ state.position = Zero
                /\ state.current_trade = None
                /\ Holding(state')
          /\ Holding(state) =>
                /\ state'.position \in {state.position, Zero}
                /\ state'.current_trade \in {state.current_trade, None}]_vars

\* a buy signal arrived while a position was open
C1_Witness ==
    /\ rpc = "loop"
    /\ Holding(state)
    /\ hist.op = "hold"
    /\ hist.signal = 1

\* the step is a call of generate_signal that returned signal s
SignalReceived(s) ==
    /\ rpc = "loop"
    /\ hist'.calls = hist.calls + 1
    /\ hist'.op # "raise"
    /\ hist'.signal = s

\* C31: a buy signal received while a position is open, and a sell signal
\* received while flat, leave cash, position size, entry price, open trade
\* record and trade log unchanged; only the equity-curve point of that
\* candle is written
C31_IgnoredSignal ==
    [][(\/ SignalReceived(1) /\ Holding(state)
        \/ SignalReceived(-1) /\ ~Holding(state)) =>
          /\ state' = state
          /\ Len(equity_curve') = Len(equity_curve)
          /\ \A k \in 1..Len(equity_curve) :
                k # i + 1 => equity_curve'[k] = equity_curve[k]
          /\ equity_curve'[i + 1] = MarkToMarket(state)]_vars

\* a sell signal arrived while flat, after an earlier round trip
C31_Witness ==
    /\ rpc = "loop"
    /\ ~Holding(state)
    /\ hist.op = "hold"
    /\ hist.signal = -1
    /\ Len(state.trades) = 1

\* C2: the frame passed to generate_signal at candle i is exactly the prefix
\* of the series made of candles 0..i: it ends at candle i and holds no
\* candle with a later timestamp.
C2_NoLookAhead ==
    analysis_data # None =>
        LET n == NRows(analysis_data) IN
        /\ n = hist.at + 1
        /\ DOMAIN analysis_data = DOMAIN data
        /\ \A k \in 1..n :
              /\ analysis_data.timestamp[k] = data.timestamp[k]
              /\ analysis_data.close[k] = data.close[k]
              /\ analysis_data.timestamp[k] <= data.timestamp[hist.at + 1]

\* a signal was asked for at a candle that is not the last one
C2_Witness ==
    /\ analysis_data # None
    /\ NRows(analysis_data) >= 2
    /\ NRows(analysis_data) < NRows(data)

Reference == strategy.kind \in {"ma", "rsi"}

IndicatorColumns ==
    IF strategy.kind = "ma" THEN {"short_ma", "long_ma"}
    ELSE IF strategy.kind = "rsi" THEN {"rsi"} ELSE {}

\* C3: with a reference strategy the frame passed to generate_signal carries
\* the indicator columns that prepare_data produced, and a run over a
\* non-empty series longer than min_required_candles returns a result.
C3_PreparedColumnsReachSignal ==
    Reference =>
        /\ analysis_data # None =>
              IndicatorColumns \subseteq DOMAIN analysis_data
        /\ (/\ rpc = "returned"
            /\ data # None
            /\ NRows(data) > strategy.min_required_candles) => result # None

\* C4: at the entry candle, with pre-entry cash C and entry commission c,
\* the recorded equity is C - c.
C4_EntryEquity ==
    (rpc = "loop" /\ hist.op = "buy") =>
        equity_curve[hist.at + 1] = RSub(hist.cash_before, hist.commission)

\* C5: every closed trade's profit is exit notional - entry notional - entry
\* commission - exit commission.
C5_ProfitNetOfBothLegs ==
    state # None =>
        \A k \in 1..Len(state.trades) :
            LET t == state.trades[k]
                exit_notional == RMul(t.size, t.exit_price)
                entry_notional == RMul(t.size, t.entry_price)
            IN  t.profit =
                    RSub(RSub(RSub(exit_notional, entry_notional), t.commission),
                         RMul(exit_notional, Rate))

\* C6: whenever run returns a result, every trade of the log has its exit
\* fields, there are as many trades as entries were executed, and a position
\* still open after the last candle was closed at the last close, at the
\* last timestamp, with the profit a sell at that price records.
C6_ForcedClose ==
    (rpc = "returned" /\ result # None) =>
        /\ \A k \in 1..Len(result.trades) :
              ExitKeys \subseteq DOMAIN result.trades[k]
        /\ Len(result.trades) = hist.entries
        /\ Holding(state) =>
              LET t == result.trades[Len(result.trades)]
                  value == RMul(state.position, LastClose)
              IN  /\ t.exit_price = LastClose
                  /\ t.exit_time = data.timestamp[NRows(data)]
                  /\ t.entry_time = state.current_trade.entry_time
                  /\ t.profit =
                        RSub(RSub(value, RMul(state.position, state.entry_price)),
                             RMul(value, Rate))

\* a run ended holding a position, after an earlier round trip
C6_Witness ==
    /\ rpc = "returned"
    /\ result # None
    /\ Holding(state)
    /\ Len(result.trades) = 2

\* C7: when an exception is raised during the replay, run returns None,
\* never a BacktestResult.
C7_ExceptionGivesNone ==
    (rpc = "returned" /\ hist.raised) => result = None

\* generate_signal raised after a trade had been closed
C7_Witness ==
    /\ rpc = "returned"
    /\ hist.raised
    /\ hist.op = "raise"
    /\ Len(state.trades) = 1

\* C8: when the exchange is not available, the feed cannot deliver, or the
\* series is empty after the date filter, run returns None; no result has
\* an equity curve of zero candles.
C8_NoDataGivesNone ==
    /\ (/\ rpc = "returned"
        /\ \/ exchange = None
           \/ exchange.fails
           \/ data # None /\ Empty(data)) => result = None
    /\ result # None => Len(result.equity_curve) > 0

\* a feed of several candles, all of them outside the date range
C8_Witness ==
    /\ rpc = "returned"
    /\ exchange # None
    /\ Len(exchange.ohlcv) > 1
    /\ data # None
    /\ Empty(data)

AlwaysHold == strategy.kind = "fixed" /\ strategy.outcomes = <<>>

\* C19: on any non-empty series a strategy that returns hold at every candle
\* gives a result with no trade and an equity curve that is the initial
\* capital at every candle.
C19_HoldIsFlat ==
    (rpc = "returned" /\ AlwaysHold /\ data # None /\ ~Empty(data)) =>
        /\ result # None
        /\ result.trades = <<>>
        /\ Len(result.equity_curve) = NRows(data)
        /\ \A k \in 1..Len(result.equity_curve) :
              result.equity_curve[k] = args.initial_capital

\* a hold strategy was asked at three candles and run has returned
C19_Witness ==
    /\ rpc = "returned"
    /\ AlwaysHold
    /\ result # None
    /\ hist.calls >= 3
    /\ hist.op = "hold"

SecondReturned == prev # None /\ prev.runs = 1 /\ rpc = "returned"

C21_ShortSeriesIsFlat ==
    (/\ rpc = "returned"
     /\ data # None
     /\ ~Empty(data)
     /\ NRows(data) < strategy.min_required_candles) =>
        /\ result # None
        /\ result.trades = <<>>
        /\ Len(result.equity_curve) = NRows(data)
        /\ \A k \in 1..Len(result.equity_curve) :
              result.equity_curve[k] = args.initial_capital

\* a moving-average strategy that needs three candles was run on two
C21_Witness ==
    /\ rpc = "returned"
    /\ strategy.kind = "ma"
    /\ strategy.min_required_candles = 3
    /\ data # None
    /\ NRows(data) = 2
    /\ result # None
    /\ hist.calls = 0

\* the warm-up candles of the run: those the loop skips
WarmUp == Min(strategy.min_required_candles, NRows(data))

\* C23: the equity curve of a result has one point for each candle that was
\* processed after the warm-up: its length is the number of candles of the
\* series less the number of warm-up candles skipped.
C23_CurveLength ==
    (rpc = "returned" /\ result # None) =>
        Len(result.equity_curve) = NRows(data) - WarmUp

\* the trades closed so far, or those of the result once run has returned
ClosedTrades ==
    IF rpc = "returned" /\ result # None THEN result.trades
    ELSE IF state # None THEN state.trades
    ELSE <<>>

\* C24: every closed trade has an exit_time that is not before its
\* entry_time, and each trade is exited strictly before the next one is
\* entered.
C24_TradesInOrder ==
    /\ \A k \in 1..Len(ClosedTrades) :
          ClosedTrades[k].exit_time >= ClosedTrades[k].entry_time
    /\ \A k \in 1..(Len(ClosedTrades) - 1) :
          ClosedTrades[k].exit_time < ClosedTrades[k + 1].entry_time

\* a result with two trades, the second entered at the last candle and
\* closed there
C24_Witness ==
    /\ rpc = "returned"
    /\ result # None
    /\ Len(result.trades) = 2
    /\ result.trades[1].exit_time > result.trades[1].entry_time
    /\ result.trades[2].exit_time = result.trades[2].entry_time

\* run has returned from ten candles that close at 100, 101, ... 109, with
\* the moving-average strategy of windows 2 and 4
ScenarioA ==
    /\ rpc = "returned"
    /\ strategy = MovingAverageStrategy(2, 4)
    /\ exchange.ohlcv = Rising(100, 10)

\* C22: the moving-average strategy with short_window 2 and long_window 4
\* on ten candles closing at 100 to 109 trades exactly once: a buy, closed
\* by force at the close of the last candle, with a positive profit before
\* commission.
C22_ScenarioA ==
    ScenarioA =>
        /\ result # None
        /\ Len(result.trades) = 1
        /\ result.trades[1].side = "buy"
        /\ result.trades[1].exit_time = 10
        /\ result.trades[1].exit_price = R(109)
        /\ RGt(result.trades[1].exit_price, result.trades[1].entry_price)

\* C34: whenever run returns a result, the last value of the equity curve
\* minus the initial capital, which is metrics total_return when there are
\* trades, equals the sum of the profits of the trades of the log
C34_AccountingConsistent ==
    (rpc = "returned" /\ result # None) =>
        LET curve == result.equity_curve
        IN  /\ RSub(curve[Len(curve)], result.initial_capital) =
                   SumProfit(result.trades)
            /\ result.metrics.total_return = SumProfit(result.trades)

\* the number of candles after the warm-up: max(0, N - min_required_candles)
AfterWarmUp == NRows(data) - WarmUp

\* the calls of generate_signal so far were made at the candles that follow
\* the warm-up, one after the other, the first with a prefix of
\* min_required_candles + 1 candles
CallsFollowWarmUp ==
    hist.calls >= 1 =>
        /\ hist.at = strategy.min_required_candles + hist.calls - 1
        /\ NRows(analysis_data) = hist.at + 1

Finished == opt # None /\ opt.pc = "done" /\ "error" \notin DOMAIN opt.ret

Successful == {j \in 1..Len(opt.trials) : opt.trials[j].ok}

\* the first of the successful trials whose metric no other one exceeds is
\* the one reported as best
FirstGreatestIsBest ==
    (Finished /\ Successful # {}) =>
        \E j \in Successful :
            /\ \A m \in Successful : RGe(opt.trials[j].value, opt.trials[m].value)
            /\ \A m \in Successful :
                  m < j => RLt(opt.trials[m].value, opt.trials[j].value)
            /\ opt.ret.best_params = opt.trials[j].params
            /\ opt.ret.best_metric_value = opt.trials[j].value

TwoByTwo ==
    <<[name |-> "short_window", values |-> <<1, 2>>],
      [name |-> "long_window", values |-> <<2, 3>>]>>

Flat(closes) == \A j, k \in 1..Len(closes) : closes[j] = closes[k]

\* a moving-average strategy searched over a two-by-two grid on a flat,
\* non-empty series: four results of zero total return, the first
\* combination is the best
ScenarioC ==
    (/\ Finished
     /\ strategy.kind = "ma"
     /\ opt.param_grid = TwoByTwo
     /\ opt.metric = "total_return"
     /\ ~exchange.fails
     /\ exchange.ohlcv # <<>>
     /\ Flat(exchange.ohlcv)) =>
        /\ Len(opt.ret.all_results) = 4
        /\ \A j \in 1..Len(opt.ret.all_results) :
              opt.ret.all_results[j].metrics.total_return = Zero
        /\ opt.ret.best_params = [short_window |-> 1, long_window |-> 2]

\* C9: optimize reports as best the combination whose metric is strictly
\* greatest among the successful runs, the first in enumeration order of
\* those that tie; on a flat series a two-by-two moving-average grid gives
\* four results of zero total return and selects the first combination.
C9_BestIsFirstGreatest == FirstGreatestIsBest /\ ScenarioC

\* C10: a combination whose run returns None is not added to all_results
\* and never becomes best_params, and every combination of the grid is
\* still run.
C10_FailedTrialSkipped ==
    (opt # None /\ opt.pc # "start") =>
        /\ \A j \in 1..Len(opt.trials) :
              ~opt.trials[j].ok =>
                  /\ \A r \in 1..Len(opt.results) :
                        opt.results[r].params # opt.trials[j].params
                  /\ opt.best_params # opt.trials[j].params
        /\ Len(opt.results) = Cardinality(Successful)
        /\ Finished =>
              /\ Len(opt.trials) = Len(opt.param_combinations)
              /\ \A j \in 1..Len(opt.trials) :
                    opt.trials[j].params =
                        ParamDict(opt.param_names, opt.param_combinations[j])
              /\ opt.ret.all_results = opt.results
              /\ opt.ret.best_params = opt.best_params

\* the first trial failed, a later one succeeded and is the best
C10_Witness ==
    /\ Finished
    /\ Len(opt.trials) = 4
    /\ ~opt.trials[1].ok
    /\ opt.trials[3].ok
    /\ opt.ret.best_params = opt.trials[3].params

\* optimize has returned a report that is not an error, or an error
Returned == opt # None /\ opt.pc = "done"

Failure == "error" \in DOMAIN opt.ret

\* C11: when the run of no combination of the grid succeeds, what optimize
\* returns is an explicit failure, not an ordinary report whose best
\* combination is missing.
C11_NoSuccessIsFailure ==
    (Returned /\ Successful = {}) => Failure

\* no simulation is under way and none was made
NoRunMade == rpc = "idle" /\ Len(opt.trials) = 0 /\ hist = NoHist

\* C12: an empty parameter grid makes optimize return a failure at once: no
\* simulation is run for it.
C12_EmptyGridFails ==
    (opt # None /\ opt.param_grid = <<>>) =>
        /\ NoRunMade
        /\ Returned => Failure

\* the names a BacktestResult has a metric for
MetricNames == DOMAIN CalculateMetrics(R(1), <<>>, <<>>)

\* C13: a metric name that no result has makes optimize fail at once, with
\* no simulation run and no combination selected as best.
C13_UnknownMetricFails ==
    (opt # None /\ opt.metric \notin MetricNames) =>
        /\ NoRunMade
        /\ opt.best_params = None
        /\ Returned => Failure

\* the number of values of the candidate lists p, p + 1, ... of the grid
RECURSIVE LengthsFrom(_, _)
LengthsFrom(grid, p) ==
    IF p > Len(grid) THEN 1
    ELSE Len(grid[p].values) * LengthsFrom(grid, p + 1)

\* the j-th combination of the Cartesian product of the candidate lists in
\* product order: the later a list, the faster its values change
NthCombination(grid, j) ==
    [nm \in {grid[p].name : p \in 1..Len(grid)} |->
        LET p == CHOOSE q \in 1..Len(grid) : grid[q].name = nm
            values == grid[p].values
        IN  values[(((j - 1) \div LengthsFrom(grid, p + 1)) % Len(values)) + 1]]

\* the strategy has the attributes that params names, with its values
Applied(params) == \A nm \in DOMAIN params : strategy[nm] = params[nm]

\* C32: optimize enumerates the whole Cartesian product of the candidate
\* lists: combination j of the product order is applied to the strategy and
\* run as the j-th run, once; the loop ends after num_combinations runs,
\* num_combinations is the product of the lengths of the lists, failed
\* combinations included, and all_results holds the successful ones only
C32_FullProduct ==
    (opt # None /\ opt.pc \notin {"start", "done"}) \/ Finished =>
        LET grid == opt.param_grid
            n == LengthsFrom(grid, 1)
        IN  /\ Len(opt.trials) <= n
            /\ \A j \in 1..Len(opt.trials) :
                  opt.trials[j].params = NthCombination(grid, j)
            /\ opt.pc = "running" =>
                  /\ Len(opt.trials) < n
                  /\ opt.param_dict = NthCombination(grid, Len(opt.trials) + 1)
                  /\ Applied(opt.param_dict)
            /\ Finished =>
                  /\ Len(opt.trials) = n
                  /\ opt.ret.num_combinations = n
                  /\ Len(opt.ret.all_results) = Cardinality(Successful)
                  /\ \A r \in 1..Len(opt.ret.all_results) :
                        \E j \in Successful :
                            opt.ret.all_results[r].params = opt.trials[j].params

\* a grid of two lists of two values was searched; the second combination
\* failed and is counted, and all_results holds the other three
C32_Witness ==
    /\ Finished
    /\ opt.ret.num_combinations = 4
    /\ Len(opt.trials) = 4
    /\ ~opt.trials[2].ok
    /\ Len(opt.ret.all_results) = 3

\* the names of the candidate lists of the grid of the optimization
GridNames == {opt.param_grid[p].name : p \in 1..Len(opt.param_grid)}

\* C36: a step of optimize changes only the attributes of the strategy that
\* the grid names: min_required_candles, the parameters mapping and every
\* other attribute keep their values, so the warm-up of every trial is the
\* min_required_candles the strategy was constructed with, whatever
\* long_window the trial sets
C36_OnlyGridAttributesChange ==
    [][opt # None =>
          /\ strategy'.min_required_candles = strategy.min_required_candles
          /\ strategy'.parameters = strategy.parameters
          /\ \A nm \in DOMAIN strategy \ GridNames :
                nm \in DOMAIN strategy' /\ strategy'[nm] = strategy[nm]
          /\ hist'.calls = 1 =>
                hist'.at = strategy.min_required_candles]_vars

\* a trial set long_window = 3 on a moving-average strategy constructed with
\* long_window = 1, and its run asked for the first signal at the second
\* candle: min_required_candles and the parameters mapping are still those
\* of the construction
C36_Witness ==
    /\ opt # None
    /\ opt.pc = "running"
    /\ strategy.kind = "ma"
    /\ strategy.long_window = 3
    /\ strategy.min_required_candles = 1
    /\ strategy.parameters.long_window = 1
    /\ hist.calls = 1
    /\ hist.at = 1

\* C37: when optimize has returned, the attributes of the strategy that
\* the grid names hold the values of the last combination of the product,
\* whichever combination is reported as best
C37_LastCombinationStays ==
    Finished =>
        Applied(NthCombination(opt.param_grid, LengthsFrom(opt.param_grid, 1)))

\* the first of four combinations is reported as best and the strategy
\* holds the fourth
C37_Witness ==
    /\ Finished
    /\ Len(opt.trials) = 4
    /\ opt.ret.best_params = opt.trials[1].params
    /\ opt.ret.best_params # opt.trials[4].params
    /\ Applied(opt.trials[4].params)
    /\ ~Applied(opt.ret.best_params)

(* -------------------- properties of walk_forward_test ------------------ *)
Generating == wf # None /\ wf.pc = "gen"

Generated == wf # None /\ wf.pc = "windows"

\* the number of k >= 0 with start + k * step + window_size before end_dt
WindowCount(start_dt, end_dt, window_size, step_size) ==
    Cardinality({k \in 0..(end_dt - start_dt) :
                    start_dt + k * step_size + window_size < end_dt})

\* C17: window k (from 0) trains on window_size days from start + k *
\* step_size and is tested on the step_size days that follow, cut at the end
\* of the span, which only shortens the last window; there is a window for
\* each k whose training span ends before the end of the span, so that
\* window_size 30 and step_size 10 over 100 days give exactly 7 windows.
C17_Windows ==
    (Generating \/ Generated) =>
        LET start_dt == wf.call.start_date[1]
            end_dt == wf.call.end_date[1]
            window_size == wf.call.window_size
            step_size == wf.call.step_size
            n == Len(wf.windows)
        IN  /\ \A j \in 1..n :
                  LET w == wf.windows[j]
                  IN  /\ w.train_start = start_dt + (j - 1) * step_size
                      /\ w.train_end = w.train_start + window_size
                      /\ w.test_start = w.train_end
                      /\ w.test_end = Min(w.test_start + step_size, end_dt)
                      /\ w.test_end > w.test_start
                      /\ (Generated /\ j < n) =>
                            w.test_end - w.test_start = step_size
            /\ Generated =>
                  n = WindowCount(start_dt, end_dt, window_size, step_size)
            /\ (Generated /\ wf.call = ScenarioD) => n = 7

\* the seven windows of 30 and 10 days over 100 days have been generated
C17_Witness ==
    /\ Generated
    /\ wf.call = ScenarioD
    /\ Len(wf.windows) = 7
    /\ wf.windows[7].train_start = 61
    /\ wf.windows[7].test_end = 101

\* C14: in every window each candle the test run is given is strictly later
\* than each candle the optimization was given: training is on
\* [train_start, train_end), the test on [test_start, test_end).
C14_TestAfterTraining ==
    wf # None =>
        /\ \A j \in 1..Len(wf.log) :
              \A t \in wf.log[j].test_days :
                  \A s \in wf.log[j].train_days : t > s
        /\ (wf.pc = "testing" /\ data # None) =>
              \A t \in Days(data) : \A s \in wf.train_days : t > s

WfReturned == wf # None /\ wf.pc = "done" /\ "error" \notin DOMAIN wf.ret

InWindows ==
    \/ wf # None /\ wf.pc \in {"windows", "optimizing", "testing"}
    \/ WfReturned

\* the final equity of the last window whose test run succeeded, or the
\* initial capital of the call when there is none yet
Baseline ==
    IF wf.window_results = <<>> THEN wf.call.initial_capital
    ELSE wf.window_results[Len(wf.window_results)].test_equity

\* C15: the optimization and the test run of each window start from the
\* final equity of the most recent window whose test run succeeded, or from
\* the initial capital of the call when there is none, and final_equity of
\* the report is that amount after the last window.
C15_CapitalCarried ==
    /\ InWindows => wf.current_capital = Baseline
    /\ (wf # None /\ wf.pc \in {"optimizing", "testing"}) =>
          args.initial_capital = Baseline
    /\ (wf # None /\ wf.pc \in {"optimizing", "testing"}
            /\ rpc = "loop" /\ i = 0) =>
          state.equity = Baseline
    /\ WfReturned => wf.ret.final_equity = Baseline

\* the second window is tested from the capital the first one ended with,
\* which is not the initial capital
C15_Witness ==
    /\ wf # None
    /\ wf.pc = "testing"
    /\ rpc = "loop"
    /\ Len(wf.window_results) = 1
    /\ args.initial_capital # wf.call.initial_capital
    /\ args.initial_capital = wf.window_results[1].test_equity

Completed(log) == {j \in 1..Len(log) : log[j].outcome = "completed"}

\* C16: a window whose optimization or test run fails adds no trade and no
\* equity segment, leaves the capital as it was and is not counted in
\* completed_windows, which is the length of window_results and at most
\* num_windows; the windows after it are processed all the same.
C16_FailedWindowSkipped ==
    [][/\ (wf # None /\ wf' # None /\ Len(wf'.log) > Len(wf.log)) =>
             /\ Len(wf'.log) = wf.k + 1
             /\ wf'.k = wf.k + 1
             /\ wf'.pc = "windows"
             /\ Len(wf'.window_results) = Cardinality(Completed(wf'.log))
             /\ wf'.log[Len(wf'.log)].outcome # "completed" =>
                   /\ wf'.consolidated_trades = wf.consolidated_trades
                   /\ wf'.equity_curve_data = wf.equity_curve_data
                   /\ wf'.current_capital = wf.current_capital
                   /\ wf'.window_results = wf.window_results
       /\ WfReturned' =>
             /\ Len(wf'.log) = Len(wf'.windows)
             /\ wf'.ret.num_windows = Len(wf'.windows)
             /\ wf'.ret.completed_windows = Cardinality(Completed(wf'.log))
             /\ wf'.ret.completed_windows = Len(wf'.ret.window_results)
             /\ wf'.ret.completed_windows <= wf'.ret.num_windows]_vars

\* the first window failed in its test run, the second one completed
C16_Witness ==
    /\ WfReturned
    /\ Len(wf.log) = 2
    /\ wf.log[1].outcome = "test failed"
    /\ wf.log[2].outcome = "completed"
    /\ wf.ret.completed_windows = 1

\* the equity of the first segment that has the timestamp t
FirstValue(segments, t) ==
    LET s == CHOOSE s \in 1..Len(segments) :
                 /\ t \in Days(segments[s])
                 /\ \A r \in 1..(s - 1) : t \notin Days(segments[r])
        p == CHOOSE p \in 1..NRows(segments[s]) :
                 segments[s].timestamp[p] = t
    IN  segments[s].equity[p]

\* C18: the consolidated equity curve has each timestamp of the test runs
\* once, in increasing order, with the value of the window processed first
\* among those that share it; total_return_pct is the gain of the final
\* capital over the initial capital of the call, as a percentage of it.
C18_ConsolidatedCurve ==
    WfReturned =>
        LET rows == wf.combined_equity
            segments == wf.equity_curve_data
        IN  /\ \A j, k \in 1..Len(rows) :
                  j < k => rows[j].timestamp < rows[k].timestamp
            /\ {rows[k].timestamp : k \in 1..Len(rows)} =
                  UNION {Days(segments[s]) : s \in 1..Len(segments)}
            /\ \A k \in 1..Len(rows) :
                  rows[k].equity = FirstValue(segments, rows[k].timestamp)
            /\ wf.ret.total_return_pct =
                  RMul(RDiv(RSub(wf.ret.final_equity, wf.call.initial_capital),
                            wf.call.initial_capital), R(100))

\* two windows completed and their test runs give different values for the
\* day they share
C18_Witness ==
    /\ WfReturned
    /\ Len(wf.equity_curve_data) = 2
    /\ \E p \in 1..NRows(wf.equity_curve_data[1]) :
          /\ wf.equity_curve_data[2].timestamp[1] =
                wf.equity_curve_data[1].timestamp[p]
          /\ wf.equity_curve_data[2].equity[1] #
                wf.equity_curve_data[1].equity[p]

\* C33: from the start to the end of the test run of each window the
\* attributes of the strategy that the grid names have the values of that
\* window's best_params, whatever combination the optimizer tried last and
\* whatever an earlier window chose
C33_TestUsesBestParams ==
    (wf # None /\ wf.pc = "testing") =>
        /\ wf.opt_results.best_params # None
        /\ DOMAIN wf.opt_results.best_params =
               {wf.call.param_grid[p].name : p \in 1..Len(wf.call.param_grid)}
        /\ Applied(wf.opt_results.best_params)

\* the test run of the second window starts with short_window = 1, the best
\* of its training span, where the optimizer tried 2 last and the first
\* window had chosen 2
C33_Witness ==
    /\ wf # None
    /\ wf.pc = "testing"
    /\ rpc = "call"
    /\ Len(wf.window_results) = 1
    /\ wf.window_results[1].train_params.short_window = 2
    /\ wf.opt_results.best_params.short_window = 1
    /\ strategy.short_window = 1

\* the first window of the call fits: start + window_size is before end
FitsAtStart ==
    Fits(wf.call.start_date[1], wf.call.window_size, wf.call.end_date[1])

\* the window loop of the call has been left, one way or the other
LoopLeft == wf.pc \in {"windows", "done"}

\* the call has returned the error of the exception handler
WfRaised == wf.pc = "done" /\ "error" \in DOMAIN wf.ret

\* the turns a loop that steps backwards takes before the next start is
\* below datetime.min
TurnsBack(start_dt, step_size) ==
    (start_dt - datetime_min) \div (0 - step_size) + 1

NoWindowCompleted ==
    /\ wf # None
    /\ wf.pc = "done"
    /\ exchange # None
    /\ wf.call.param_grid # <<>>
    /\ Completed(wf.log) = {}

\* the metrics of a BacktestResult without trades (lines 73-88)
ZeroMetrics ==
    [total_return |-> Zero, total_return_pct |-> Zero, num_trades |-> Zero,
     win_rate |-> Zero, avg_profit_per_trade |-> Zero]

\* C39: when no window completes, none being generated or all being
\* skipped, walk_forward_test returns a report without 'error' in which
\* completed_windows is 0, window_results is empty, final_equity is the
\* initial capital of the call, total_return_pct is 0 and the consolidated
\* metrics are all zero.
C39_EmptyReport ==
    NoWindowCompleted =>
        /\ "error" \notin DOMAIN wf.ret
        /\ wf.ret.num_windows = Len(wf.log)
        /\ wf.ret.completed_windows = 0
        /\ wf.ret.window_results = <<>>
        /\ wf.ret.final_equity = wf.call.initial_capital
        /\ wf.ret.total_return_pct = Zero
        /\ wf.ret.consolidated_metrics = ZeroMetrics
        /\ wf.combined_equity = <<>>

\* both windows were skipped, the first for its optimization and the second
\* for its test run, and the report has been returned
C39_Witness ==
    /\ NoWindowCompleted
    /\ Len(wf.log) = 2
    /\ wf.log[1].outcome = "optimization failed"
    /\ wf.log[2].outcome = "test failed"
    /\ wf.ret.num_windows = 2
    /\ wf.ret.completed_windows = 0

(* ------------------- properties of the metric functions ---------------- *)
UtilReturned(fn) == util # None /\ util.called = fn

\* the length of the longest run of consecutive trades with profit <= 0
LongestNonPositiveRun(trades) ==
    LET runs == {<<a, b>> \in (1..Len(trades)) \X (1..Len(trades)) :
                     /\ a <= b
                     /\ \A k \in a..b : ~RGt(trades[k].profit, Zero)}
    IN  IF runs = {} THEN 0
        ELSE CHOOSE n \in 1..Len(trades) :
                 /\ \E r \in runs : r[2] - r[1] + 1 = n
                 /\ \A r \in runs : r[2] - r[1] + 1 <= n

\* C26: calculate_max_consecutive_losses returns the length of the longest
\* run of consecutive trades whose profit is <= 0, a trade of profit zero
\* extending the run, for every trade list
C26_LongestLosingRun ==
    UtilReturned("calculate_max_consecutive_losses") =>
        util.out.max_consecutive_losses = LongestNonPositiveRun(util.trades)

\* gross profit / gross loss, +infinity with a profit and no loss, 0.0
\* with neither (and so with no trades)
GrossProfitOverGrossLoss(trades) ==
    LET wins == {k \in 1..Len(trades) : RGt(trades[k].profit, Zero)}
        losses == {k \in 1..Len(trades) : RLt(trades[k].profit, Zero)}
        gross_profit == SumProfitsIn(trades, {1})
        gross_loss == RNeg(SumProfitsIn(trades, {-1}))
    IN  IF losses # {} THEN RDiv(gross_profit, gross_loss)
        ELSE IF wins # {} THEN PosInf
        ELSE Zero

\* C27: the profit factor is gross profit / gross loss, +infinity exactly
\* when there is a profit and no loss, 0.0 when there are no trades or
\* neither profit nor loss, and BacktestResult.metrics and
\* calculate_profit_factor give the same value on every trade list
C27_ProfitFactor ==
    /\ UtilReturned("calculate_profit_factor") =>
           util.out.profit_factor = GrossProfitOverGrossLoss(util.trades)
    /\ UtilReturned("metrics.profit_factor") =>
           /\ util.out.metrics_profit_factor =
                  GrossProfitOverGrossLoss(util.trades)
           /\ util.out.metrics_profit_factor =
                  calculate_profit_factor(util.trades)

\* the series is an equity curve of positive capital whose first and last
\* points are on one calendar day
ZeroDayCurve ==
    /\ util # None
    /\ Len(util.series.values) > 0
    /\ util.series.datetime
    /\ ElapsedDays(util.series.index) = 0
    /\ RGt(util.series.values[1], Zero)

\* the annualized return a is the return from start to the last point of the
\* series, not annualized
RawTotalReturn(a, start) ==
    /\ a.growth = RDiv(util.series.values[Len(util.series.values)], start)
    /\ a.years = R(1)

\* C28: for an equity curve that spans zero elapsed calendar days,
\* calculate_annualized_return, and BacktestResult.metrics of a result with
\* trades, report the raw total return, not zero
C28_ZeroDaysRawReturn ==
    /\ UtilReturned("calculate_annualized_return") /\ ZeroDayCurve =>
           RawTotalReturn(util.out.annualized, util.series.values[1])
    /\ (/\ UtilReturned("metrics.annualized_return")
        /\ ZeroDayCurve
        /\ Len(util.trades) > 0) =>
           RawTotalReturn(util.out.metrics_annualized, util.initial_capital)

\* the returns handed to calculate_sharpe_ratio are finite and are fewer
\* than two or have a standard deviation of zero
FewOrConstantReturns ==
    LET returns == util.series.values
    IN  \/ Len(returns) < 2
        \/ \A k \in 1..Len(returns) : returns[k] = returns[1]

\* C29: calculate_sharpe_ratio returns exactly 0.0 when there are fewer than
\* two returns or their standard deviation is zero, constant non-zero
\* returns included, and never NaN or an infinity
C29_SharpeZero ==
    UtilReturned("calculate_sharpe_ratio") /\ FewOrConstantReturns =>
        util.out.sharpe = Surd(Zero, R(1))

\* C30: for every flat equity curve calculate_drawdown returns 0 and the
\* Sharpe ratio of the returns of the curve is 0, and calculate_drawdown
\* returns 0.0 for an empty series
C30_FlatCurve ==
    /\ UtilReturned("calculate_drawdown") /\ Flat(util.series.values) =>
           util.out.drawdown = Zero
    /\ (/\ UtilReturned("calculate_sharpe_ratio(pct_change)")
        /\ Flat(util.series.values)) =>
           util.out.sharpe = Surd(Zero, R(1))

\* the Sharpe ratio of a flat curve of three points of positive equity, whose
\* two returns are zero and have no deviation, has been returned
C30_Witness ==
    /\ UtilReturned("calculate_sharpe_ratio(pct_change)")
    /\ Flat(util.series.values)
    /\ Len(util.series.values) = 3
    /\ RGt(util.series.values[1], Zero)
    /\ util.out.sharpe = Surd(Zero, R(1))

(* ---------------- properties of concurrent optimizations --------------- *)
\* some recorded pair of some task holds the metrics of a run that read
\* other parameter values than the pair's params
RecordedUnderOtherParams ==
    \E t \in ConcTasks : \E j \in 1..Len(conc.tasks[t].results) :
        conc.tasks[t].results[j].metrics.run_with #
            conc.tasks[t].results[j].params

\* C25: when each task has its own Strategy instance, in every interleaving
\* each recorded (params, metrics) pair comes from a run that used exactly
\* those params; on one shared instance a run can read values the other
\* task wrote (C25_Witness)
C25_OwnInstanceIsSafe ==
    (conc # None /\ ~conc.shared) => ~RecordedUnderOtherParams

\* two tasks on one shared Strategy instance, and a recorded pair whose run
\* read parameter values other than the params it is recorded under
C25_Witness == conc # None /\ conc.shared /\ RecordedUnderOtherParams


====
